---- MODULE Spec2Model ----
(***************************************************************************)
(* Board-war battle screen (src/src/app/board/page.tsx): the React state   *)
(* of BoardPageContent, its event handlers, its effects and the round      *)
(* trips to the game backend, as a state machine.                          *)
(*                                                                         *)
(* The backend is an external service.  A reply is either a failure or a   *)
(* GameState snapshot; the snapshot's units are the local units with the   *)
(* request applied; its status is a free input, and so are its             *)
(* currentPlayerId after END_TURN and after the opponent's turn and its    *)
(* turnNumber after END_TURN.                                              *)
(*                                                                         *)
(* Clicks and drops reach the handlers as the rendered page lets them:     *)
(* a disabled button and a cell that refuses the drop fire nothing.        *)
(*                                                                         *)
(* PathSpec calls findPath by itself, once, on every board of a small grid,*)
(* from every start to every target: the page's own calls (handleMoveTo)   *)
(* reach it only from a unit's tile with the unit's speed.                 *)
(***************************************************************************)
EXTENDS Integers, Sequences, FiniteSets, TLC

VARIABLES
    board,            \* [loaded, tiles]: useState<Board | null>
    localPlayerId,    \* 0 stands for null
    enemyPlayerId,    \* 0 stands for null
    playerUnits,      \* Seq(OwnedUnit)
    enemyUnits,       \* Seq(OwnedUnit)
    phase,            \* "deployment" | "battle" | "finished"
    activeSide,       \* "player" | "enemy"
    selectedUnitId,   \* 0 stands for null
    pathCoords,       \* Seq(coords)
    error,            \* "null" or the message
    victoryMode,      \* "points" | "elimination" | "turns"
    turnLimit,
    roundNumber,
    gameResult,       \* [winner, reason]
    isResolvingAi,
    acted,            \* [player |-> set of ids, enemy |-> set of ids]
    moved,            \* [player |-> set of ids, enemy |-> set of ids]
    isLoading,
    pending,          \* Seq(request): round trips in flight, with their closures
    sent,             \* history: the number of requests the handlers have sent
    issued,           \* history: per unit, MOVEs and ATTACKs sent since the last END_TURN succeeded
    call,             \* one call of findPath on its own: its arguments and what it returned
    stats             \* [recorded, inFlight, reports]: hasRecordedStats, the POSTs of
                      \* /stats/record in flight, the results the backend has recorded

vars ==
    <<board, localPlayerId, enemyPlayerId, playerUnits, enemyUnits, phase, activeSide,
      selectedUnitId, pathCoords, error, victoryMode, turnLimit, roundNumber, gameResult,
      isResolvingAi, acted, moved, isLoading, pending, sent, issued, call, stats>>

\* ------------------------------------------------------------------ bounds

\* Round trips a user may have in flight together before the model stops accepting clicks.
MaxInFlight == 2
\* Requests the handlers send in one run of the model.
MaxRequests == 3
\* The largest turnNumber a reply carries.
MaxTurnNumber == 2
\* The largest value typed into the turn-limit input.
MaxTurnInput == 1
\* The board of the modelled game has the columns 0 .. MaxColumn.
MaxColumn == 3
\* The boards findPath is called on by itself have the columns 0 .. MaxPathQ,
MaxPathQ == 1
\* the rows 0 .. MaxPathR,
MaxPathR == 1
\* and tiles of movementCost 1 .. MaxTileCost.
MaxTileCost == 2
\* The largest maxCost of those calls.
MaxBudget == 3
\* The largest number of blocked coordinates of those calls.
MaxBlocked == 2
MaxStatsInFlight == 2

\* ------------------------------------------------------------------ values

NoCoords == <<>>
NoBoard == [loaded |-> FALSE, tiles |-> {}]
NoPoints == <<>>
NoResult == [winner |-> "null", reason |-> [text |-> "", points |-> NoPoints]]
EmptySets == [player |-> {}, enemy |-> {}]
DefaultTurnLimit == 6

Max(a, b) == IF a >= b THEN a ELSE b
Min(a, b) == IF a <= b THEN a ELSE b
Abs(x) == IF x < 0 THEN -x ELSE x

\* The players of the modelled game: the local one, then the computer opponent.
Players == <<1, 2>>
LocalId == Players[1]
EnemyId == Players[2]

\* The unit catalog fetched from /units.
Templates ==
    [ infantry |-> [maxHp |-> 2, meleeAttack |-> 1, rangedAttack |-> 0, attackRange |-> 1, speed |-> 2],
      archer   |-> [maxHp |-> 1, meleeAttack |-> 0, rangedAttack |-> 2, attackRange |-> 2, speed |-> 1] ]

\* The tiles of the modelled game: row 0 of every column, its last column rough ground,
\* and one tile of row 1.
GameTiles ==
    { [q |-> q, r |-> 0, passable |-> TRUE, movementCost |-> IF q = MaxColumn THEN 2 ELSE 1] :
        q \in 0..MaxColumn }
    \cup { [q |-> 1, r |-> 1, passable |-> TRUE, movementCost |-> 1],
            [q |-> 2, r |-> 1, passable |-> FALSE, movementCost |-> 1] }

\* ------------------------------------------------------------------ board

tileByCoord(tiles) == [c \in {<<t.q, t.r>> : t \in tiles} |-> CHOOSE t \in tiles : <<t.q, t.r>> = c]

HasTile(tiles, c) == \E t \in tiles : <<t.q, t.r>> = c

\* columns: minQ .. maxQ of the board, as the pair <<minQ, maxQ>>; <<>> without tiles.
columns(tiles) ==
    IF tiles = {} THEN <<>>
    ELSE LET qs == {t.q : t \in tiles}
         IN  <<CHOOSE q \in qs : \A p \in qs : q <= p, CHOOSE q \in qs : \A p \in qs : q >= p>>

allowedDeployColumns(tiles) ==
    IF columns(tiles) = <<>> THEN {}
    ELSE LET minQ == columns(tiles)[1] IN {minQ, minQ + 1, minQ + 2}

\* The mirror that leaves the column as it is.
mirroredQ_same(tiles, q) ==
    q

mirroredQ(tiles, q) ==
    IF columns(tiles) = <<>> THEN q
    ELSE columns(tiles)[2] - (q - columns(tiles)[1])

\* The directions with a diagonal in the place of the step down.
Dirs_diagonal == << <<1, 0>>, <<-1, 0>>, <<0, 1>>, <<1, 1>> >>

Dirs == << <<1, 0>>, <<-1, 0>>, <<0, 1>>, <<0, -1>> >>

getNeighbors(tiles, c) ==
    SelectSeq([i \in 1..4 |-> <<c[1] + Dirs[i][1], c[2] + Dirs[i][2]>>],
              LAMBDA n : HasTile(tiles, n))

distance(a, b) == Abs(a[1] - b[1]) + Abs(a[2] - b[2])

\* ------------------------------------------------------------------ findPath

NoPath == [cost |-> -1, path |-> <<>>]

RECURSIVE InsertByCost(_, _)
\* One step of the stable sort of the queue by cost: node goes after every node
\* whose cost is not larger.
InsertByCost(sorted, node) ==
    IF sorted = <<>> THEN <<node>>
    ELSE IF Head(sorted).cost <= node.cost
         THEN <<Head(sorted)>> \o InsertByCost(Tail(sorted), node)
         ELSE <<node>> \o sorted

RECURSIVE SortByCost(_)
SortByCost(queue) ==
    IF queue = <<>> THEN <<>>
    ELSE InsertByCost(SortByCost(SubSeq(queue, 1, Len(queue) - 1)), queue[Len(queue)])

RECURSIVE Relax_unitCost(_, _, _, _, _, _)
\* The for loop that counts every tile entered as 1 movement point.
Relax_unitCost(tiles, blocked, maxCost, current, ns, st) ==
    IF ns = <<>> THEN st
    ELSE LET key == Head(ns)
             tile == tileByCoord(tiles)[key]
             tentative == current.cost + 1
             skip == \/ key \in blocked
                     \/ ~tile.passable
                     \/ tentative > maxCost
                     \/ (key \in DOMAIN st.dist /\ ~(tentative < st.dist[key]))
             upd == [queue |-> Append(st.queue, [key |-> key, cost |-> tentative]),
                     dist  |-> [k \in DOMAIN st.dist \cup {key} |->
                                  IF k = key THEN tentative ELSE st.dist[k]],
                     prev  |-> [k \in DOMAIN st.prev \cup {key} |->
                                  IF k = key THEN current.key ELSE st.prev[k]],
                     order |-> IF key \in DOMAIN st.dist THEN st.order
                               ELSE Append(st.order, key)]
         IN  Relax_unitCost(tiles, blocked, maxCost, current, Tail(ns),
                            IF skip THEN st ELSE upd)

RECURSIVE Relax(_, _, _, _, _, _)
\* The for loop over the neighbours of current: st = [queue, dist, prev, order].
Relax(tiles, blocked, maxCost, current, ns, st) ==
    IF ns = <<>> THEN st
    ELSE LET key == Head(ns)
             tile == tileByCoord(tiles)[key]
             tentative == current.cost + tile.movementCost
             skip == \/ key \in blocked
                     \/ ~tile.passable
                     \/ tentative > maxCost
                     \/ (key \in DOMAIN st.dist /\ ~(tentative < st.dist[key]))
             upd == [queue |-> Append(st.queue, [key |-> key, cost |-> tentative]),
                     dist  |-> [k \in DOMAIN st.dist \cup {key} |->
                                  IF k = key THEN tentative ELSE st.dist[k]],
                     prev  |-> [k \in DOMAIN st.prev \cup {key} |->
                                  IF k = key THEN current.key ELSE st.prev[k]],
                     order |-> IF key \in DOMAIN st.dist THEN st.order
                               ELSE Append(st.order, key)]
         IN  Relax(tiles, blocked, maxCost, current, Tail(ns), IF skip THEN st ELSE upd)

RECURSIVE Relax_firstVisit(_, _, _, _, _, _)
\* The for loop of a breadth-first search: a tile that has a cost keeps it.
Relax_firstVisit(tiles, blocked, maxCost, current, ns, st) ==
    IF ns = <<>> THEN st
    ELSE LET key == Head(ns)
             tile == tileByCoord(tiles)[key]
             tentative == current.cost + tile.movementCost
             skip == \/ key \in blocked
                     \/ ~tile.passable
                     \/ tentative > maxCost
                     \/ key \in DOMAIN st.dist
             upd == [queue |-> Append(st.queue, [key |-> key, cost |-> tentative]),
                     dist  |-> [k \in DOMAIN st.dist \cup {key} |->
                                  IF k = key THEN tentative ELSE st.dist[k]],
                     prev  |-> [k \in DOMAIN st.prev \cup {key} |->
                                  IF k = key THEN current.key ELSE st.prev[k]],
                     order |-> Append(st.order, key)]
         IN  Relax_firstVisit(tiles, blocked, maxCost, current, Tail(ns),
                              IF skip THEN st ELSE upd)

RECURSIVE Search_bfs(_, _, _, _)
\* The while loop of a breadth-first search: the queue is not sorted, the node queued
\* first is popped.
Search_bfs(tiles, blocked, maxCost, st) ==
    IF st.queue = <<>> THEN st
    ELSE LET current == Head(st.queue)
         IN  Search_bfs(tiles, blocked, maxCost,
                        Relax_firstVisit(tiles, blocked, maxCost, current,
                                         getNeighbors(tiles, current.key),
                                         [st EXCEPT !.queue = Tail(st.queue)]))

RECURSIVE Search(_, _, _, _)
\* The while loop: pop the cheapest node, relax its neighbours.
Search(tiles, blocked, maxCost, st) ==
    IF st.queue = <<>> THEN st
    ELSE LET sorted == SortByCost(st.queue)
             current == Head(sorted)
         IN  Search(tiles, blocked, maxCost,
                    Relax(tiles, blocked, maxCost, current, getNeighbors(tiles, current.key),
                          [st EXCEPT !.queue = Tail(sorted)]))

RECURSIVE PickBest_cheapest(_, _, _, _, _)
\* The choice of the destination by the lowest cost alone.
PickBest_cheapest(order, dist, target, maxCost, best) ==
    IF order = <<>> THEN best
    ELSE LET key == Head(order)
             cost == dist[key]
             heuristic == Abs(key[1] - target[1]) + Abs(key[2] - target[2])
             cand == [key |-> key, cost |-> cost, heuristic |-> heuristic]
             next == IF cost > maxCost THEN best
                     ELSE IF best.key = <<>> \/ cost < best.cost THEN cand
                     ELSE best
         IN  PickBest_cheapest(Tail(order), dist, target, maxCost, next)

RECURSIVE PickBest_noTieBreak(_, _, _, _, _)
\* The choice of the destination without the tie-break by cost.
PickBest_noTieBreak(order, dist, target, maxCost, best) ==
    IF order = <<>> THEN best
    ELSE LET key == Head(order)
             cost == dist[key]
             heuristic == Abs(key[1] - target[1]) + Abs(key[2] - target[2])
             cand == [key |-> key, cost |-> cost, heuristic |-> heuristic]
             better == best.key = <<>> \/ heuristic < best.heuristic
             next == IF cost > maxCost THEN best
                     ELSE IF key = target THEN cand
                     ELSE IF target \notin DOMAIN dist /\ better THEN cand
                     ELSE best
         IN  PickBest_noTieBreak(Tail(order), dist, target, maxCost, next)

RECURSIVE PickBest(_, _, _, _, _)
\* dist.forEach in insertion order: best = [key, cost, heuristic], key <<>> for none.
PickBest(order, dist, target, maxCost, best) ==
    IF order = <<>> THEN best
    ELSE LET key == Head(order)
             cost == dist[key]
             heuristic == Abs(key[1] - target[1]) + Abs(key[2] - target[2])
             cand == [key |-> key, cost |-> cost, heuristic |-> heuristic]
             better == \/ best.key = <<>>
                       \/ heuristic < best.heuristic
                       \/ (heuristic = best.heuristic /\ cost < best.cost)
             next == IF cost > maxCost THEN best
                     ELSE IF key = target THEN cand
                     ELSE IF target \notin DOMAIN dist /\ better THEN cand
                     ELSE best
         IN  PickBest(Tail(order), dist, target, maxCost, next)

RECURSIVE PathTo(_, _)
\* The path from the start to k, following prev.
PathTo(prev, k) ==
    IF k = <<>> THEN <<>> ELSE Append(PathTo(prev, prev[k]), k)

\* The search that leaves the start out of the path that ends on it.
findPath_emptyAtStart(tiles, start, target, blocked, maxCost) ==
    LET st0 == [queue |-> << [key |-> start, cost |-> 0] >>,
                dist  |-> [k \in {start} |-> 0],
                prev  |-> [k \in {start} |-> <<>>],
                order |-> <<start>>]
        st == Search(tiles, blocked, maxCost, st0)
        best == PickBest(st.order, st.dist, target, maxCost,
                         [key |-> <<>>, cost |-> 0, heuristic |-> 0])
    IN  IF best.key = <<>> THEN NoPath
        ELSE [cost |-> best.cost,
              path |-> IF best.key = start THEN <<>> ELSE PathTo(st.prev, best.key)]

findPath(tiles, start, target, blocked, maxCost) ==
    LET st0 == [queue |-> << [key |-> start, cost |-> 0] >>,
                dist  |-> [k \in {start} |-> 0],
                prev  |-> [k \in {start} |-> <<>>],
                order |-> <<start>>]
        st == Search(tiles, blocked, maxCost, st0)
        best == PickBest(st.order, st.dist, target, maxCost,
                         [key |-> <<>>, cost |-> 0, heuristic |-> 0])
    IN  IF best.key = <<>> THEN NoPath
        ELSE [cost |-> best.cost, path |-> PathTo(st.prev, best.key)]

\* ------------------------------------------------------------------ units

AllUnits == playerUnits \o enemyUnits

Stats(u) == Templates[u.tpl]

Alive(units) == SelectSeq(units, LAMBDA u : u.currentHp > 0)

alivePlayerUnits == Alive(playerUnits)

aliveEnemyUnits == Alive(enemyUnits)

\* occupiedMap built from the player's units only.
occupiedKeys_playerOnly(units) ==
    {units[i].position : i \in {j \in 1..Len(units) : /\ units[j].position # NoCoords
                                                       /\ units[j].currentHp > 0
                                                       /\ units[j].owner = "player"}}

\* occupiedMap: forEach over [...playerUnits, ...enemyUnits]; a later unit on the same
\* key replaces an earlier one.
occupiedKeys(units) ==
    {units[i].position : i \in {j \in 1..Len(units) : units[j].position # NoCoords /\ units[j].currentHp > 0}}

occupiedMap(units) ==
    [c \in occupiedKeys(units) |->
        units[CHOOSE i \in 1..Len(units) :
                 /\ units[i].position = c /\ units[i].currentHp > 0
                 /\ \A j \in 1..Len(units) :
                       (units[j].position = c /\ units[j].currentHp > 0) => j <= i]]

RECURSIVE SumSeq(_)
SumSeq(s) == IF s = <<>> THEN 0 ELSE Head(s) + SumSeq(Tail(s))

DamageTaken(units) ==
    SumSeq([i \in 1..Len(units) |-> Max(0, Stats(units[i]).maxHp - units[i].currentHp)])

damageScore == [player |-> DamageTaken(enemyUnits), enemy |-> DamageTaken(playerUnits)]

\* selectedUnit: the unit of that id, a unit of id 0 for null.
NoUnit == [uniqueId |-> 0, tpl |-> "infantry", position |-> NoCoords, owner |-> "none", currentHp |-> 0]

FindUnit(units, id) ==
    IF \E i \in 1..Len(units) : units[i].uniqueId = id
    THEN units[CHOOSE i \in 1..Len(units) :
                  units[i].uniqueId = id /\ \A j \in 1..(i - 1) : units[j].uniqueId # id]
    ELSE NoUnit

selectedUnit == IF selectedUnitId = 0 THEN NoUnit ELSE FindUnit(AllUnits, selectedUnitId)

\* ------------------------------------------------------------------ syncFromState

Statuses == {"not_started", "in_progress", "finished", "paused"}

\* state.units.map: one OwnedUnit per unit of the snapshot.
OwnedUnit(state, playerId, u) ==
    [uniqueId  |-> u.unitId,
     tpl       |-> u.template,
     position  |-> IF state.status = "not_started" /\ u.q = 0 /\ u.r = 0
                   THEN NoCoords ELSE <<u.q, u.r>>,
     owner     |-> IF playerId # 0 /\ u.ownerPlayerId = playerId THEN "player" ELSE "enemy",
     currentHp |-> u.currentHP]

nextPhase(status) ==
    IF status = "not_started" THEN "deployment"
    ELSE IF status = "finished" THEN "finished"
    ELSE "battle"

syncPhase(prev, status) ==
    IF prev = "deployment" /\ nextPhase(status) # "finished" THEN prev ELSE nextPhase(status)

syncGameResult(prev, status) ==
    IF status = "finished"
    THEN (IF prev.winner # "null" THEN prev ELSE NoResult)
    ELSE NoResult

\* The values syncFromState(state, templates, explicitLocalId) sets.
syncFromState(state, explicitLocalId) ==
    LET playerId == IF explicitLocalId # 0 THEN explicitLocalId
                    ELSE IF localPlayerId # 0 THEN localPlayerId
                    ELSE IF Len(state.players) > 0 THEN state.players[1] ELSE 0
        others == SelectSeq(state.players, LAMBDA p : p # playerId)
        owned == [i \in 1..Len(state.units) |-> OwnedUnit(state, playerId, state.units[i])]
    IN  [board         |-> [loaded |-> TRUE, tiles |-> state.tiles],
         localPlayerId |-> playerId,
         enemyPlayerId |-> IF others = <<>> THEN 0 ELSE others[1],
         playerUnits   |-> SelectSeq(owned, LAMBDA u : u.owner = "player"),
         enemyUnits    |-> SelectSeq(owned, LAMBDA u : u.owner = "enemy"),
         phase         |-> syncPhase(phase, state.status),
         activeSide    |-> IF state.currentPlayerId = playerId THEN "player" ELSE "enemy",
         gameResult    |-> syncGameResult(gameResult, state.status)]

\* The assignments of syncFromState.
ApplySync(s) ==
    /\ board' = s.board
    /\ localPlayerId' = s.localPlayerId
    /\ enemyPlayerId' = s.enemyPlayerId
    /\ playerUnits' = s.playerUnits
    /\ enemyUnits' = s.enemyUnits
    /\ phase' = s.phase
    /\ activeSide' = s.activeSide
    /\ gameResult' = s.gameResult

NoSync == UNCHANGED <<board, localPlayerId, enemyPlayerId, playerUnits, enemyUnits, phase, activeSide, gameResult>>

\* ------------------------------------------------------------------ the backend

\* A unit as the backend reports it: an unplaced unit is at (0, 0).
BoardUnit(u) ==
    [unitId        |-> u.uniqueId,
     ownerPlayerId |-> IF u.owner = "player" THEN localPlayerId ELSE enemyPlayerId,
     template      |-> u.tpl,
     currentHP     |-> u.currentHp,
     q             |-> IF u.position = NoCoords THEN 0 ELSE u.position[1],
     r             |-> IF u.position = NoCoords THEN 0 ELSE u.position[2]]

BoardUnits == [i \in 1..Len(AllUnits) |-> BoardUnit(AllUnits[i])]

Moved(units, id, q, r) ==
    [i \in 1..Len(units) |-> IF units[i].unitId = id THEN [units[i] EXCEPT !.q = q, !.r = r] ELSE units[i]]

\* The army of a new game: nothing deployed yet.
NewGameUnits ==
    << [unitId |-> 1, ownerPlayerId |-> LocalId, template |-> "infantry", currentHP |-> 2, q |-> 0, r |-> 0],
       [unitId |-> 2, ownerPlayerId |-> LocalId, template |-> "archer",   currentHP |-> 1, q |-> 0, r |-> 0],
       [unitId |-> 3, ownerPlayerId |-> EnemyId, template |-> "infantry", currentHP |-> 2, q |-> 0, r |-> 0] >>

\* The same game after the player deployed both units and reloaded the page.
DeployedUnits == Moved(Moved(NewGameUnits, 1, 1, 0), 2, 1, 1)

GameState(status, current, turn, units) ==
    [tiles |-> GameTiles, turnNumber |-> turn, currentPlayerId |-> current, status |-> status,
     players |-> Players, units |-> units]

\* A battle that was under way when the page was reloaded: the infantry has lost 1 HP.
ResumedUnits == [DeployedUnits EXCEPT ![1].currentHP = 1]

\* A game in which the enemy has one unit more than the player: nothing deployed yet.
UnevenUnits ==
    << [unitId |-> 1, ownerPlayerId |-> LocalId, template |-> "infantry", currentHP |-> 2, q |-> 0, r |-> 0],
       [unitId |-> 3, ownerPlayerId |-> EnemyId, template |-> "infantry", currentHP |-> 2, q |-> 0, r |-> 0],
       [unitId |-> 4, ownerPlayerId |-> EnemyId, template |-> "archer",   currentHP |-> 1, q |-> 0, r |-> 0] >>

\* GET /game/{id}/state of such a game: new, or with the enemy's second unit on the board.
UnevenStates ==
    {GameState("not_started", LocalId, 1, units) : units \in {UnevenUnits, Moved(UnevenUnits, 4, 3, 0)}}

\* GET /game/{id}/state when the page loads.
InitialStates ==
    {GameState("not_started", LocalId, 1, units) : units \in {NewGameUnits, DeployedUnits}}
        \cup {GameState("in_progress", LocalId, 1, ResumedUnits)}

Damaged(units, id, damage) ==
    [i \in 1..Len(units) |->
        IF units[i].unitId = id
        THEN [units[i] EXCEPT !.currentHP = Max(0, units[i].currentHP - damage)]
        ELSE units[i]]

\* What the opponent's turn may do to the units: nothing, one enemy unit moved to a free
\* passable tile, or one living player unit hit for one point.
AiOutcomes(units) ==
    LET living == {i \in 1..Len(units) : units[i].currentHP > 0}
        taken == {<<units[i].q, units[i].r>> : i \in living}
        free == {<<t.q, t.r>> : t \in {x \in GameTiles : x.passable}} \ taken
    IN  {units}
        \cup {Moved(units, units[i].unitId, c[1], c[2]) :
                 i \in {j \in living : units[j].ownerPlayerId # localPlayerId}, c \in free}
        \cup {Damaged(units, units[i].unitId, 1) :
                 i \in {j \in living : units[j].ownerPlayerId = localPlayerId}}

\* The units of the snapshot that answers req.
ReplyUnits(req) ==
    IF req.kind \in {"PLACE", "MOVE", "MIRROR"} THEN {Moved(BoardUnits, req.unitId, req.q, req.r)}
    ELSE IF req.kind = "ATTACK" THEN {Damaged(BoardUnits, req.targetId, req.damage)}
    ELSE IF req.kind = "AI" THEN AiOutcomes(BoardUnits)
    ELSE {BoardUnits}

\* The currentPlayerId of the snapshot that answers req: the turn passes with END_TURN
\* and with the opponent's turn only.
ReplyPlayers(req) ==
    IF req.kind \in {"END_TURN", "AI"} THEN {LocalId, EnemyId}
    ELSE {IF activeSide = "player" THEN localPlayerId ELSE enemyPlayerId}

\* The turnNumber of the snapshot that answers req; the page reads it after END_TURN only.
ReplyTurns(req) == IF req.kind = "END_TURN" THEN 1..MaxTurnNumber ELSE {roundNumber}

Failure == [ok |-> FALSE]

\* Every answer to req: a failure (network error, non-OK status) or a snapshot.
Replies(req) ==
    {Failure}
    \cup {[ok |-> TRUE, state |-> GameState(status, current, turn, units)] :
             status \in Statuses, current \in ReplyPlayers(req), turn \in ReplyTurns(req),
             units \in ReplyUnits(req)}

Request(kind) ==
    [kind |-> kind, unitId |-> 0, owner |-> "player", q |-> 0, r |-> 0, targetId |-> 0,
     damage |-> 0, moved |-> EmptySets, acted |-> EmptySets, rest |-> <<>>]

RemoveAt(s, i) == SubSeq(s, 1, i - 1) \o SubSeq(s, i + 1, Len(s))

\* ------------------------------------------------------------------ frames

syncVars == <<board, localPlayerId, enemyPlayerId, playerUnits, enemyUnits, phase, activeSide, gameResult>>

settingVars == <<victoryMode, turnLimit>>

turnVars == <<roundNumber, isResolvingAi, acted, moved>>

\* A handler that returns at once.
Return == UNCHANGED vars

\* A handler that only reports msg.
Reject(msg) ==
    /\ error' = msg
    /\ UNCHANGED <<syncVars, settingVars, turnVars, selectedUnitId, pathCoords, isLoading, pending, sent, issued>>

\* The model accepts one more request from a handler.
CanSend == Len(pending) < MaxInFlight /\ sent < MaxRequests

Count(n) == Min(n + 1, 2)

ZeroIssued == [id \in {} |-> [moves |-> 0, attacks |-> 0]]

IssuedOf(id) == IF id \in DOMAIN issued THEN issued[id] ELSE [moves |-> 0, attacks |-> 0]

Issue(id, what) ==
    [k \in DOMAIN issued \cup {id} |->
        IF k # id THEN issued[k]
        ELSE IF what = "MOVE" THEN [IssuedOf(id) EXCEPT !.moves = Count(@)]
        ELSE [IssuedOf(id) EXCEPT !.attacks = Count(@)]]

\* ------------------------------------------------------------------ Init, load

PageInit ==
    /\ board = NoBoard
    /\ localPlayerId = 0
    /\ enemyPlayerId = 0
    /\ playerUnits = <<>>
    /\ enemyUnits = <<>>
    /\ phase = "deployment"
    /\ activeSide = "player"
    /\ selectedUnitId = 0
    /\ pathCoords = <<>>
    /\ error = "null"
    /\ victoryMode = "points"
    /\ turnLimit = DefaultTurnLimit
    /\ roundNumber = 1
    /\ gameResult = NoResult
    /\ isResolvingAi = FALSE
    /\ acted = EmptySets
    /\ moved = EmptySets
    /\ isLoading = TRUE
    /\ pending = <<>>
    /\ sent = 0
    /\ issued = ZeroIssued

\* No call of findPath on its own.
NoCall ==
    [tiles |-> {}, start |-> <<0, 0>>, target |-> <<0, 0>>, blocked |-> {}, maxCost |-> 0,
     returned |-> FALSE, result |-> NoPath]

\* useState(false) of hasRecordedStats; no POST of /stats/record yet.
NoStats == [recorded |-> FALSE, inFlight |-> 0, reports |-> 0]

\* What the page's own steps leave alone.
aside == <<call, stats>>

Init == PageInit /\ call = NoCall /\ stats = NoStats

\* load() on a game whose state is one of states: the game state and the unit catalog
\* are fetched, then synced.
LoadFrom(states) ==
    /\ isLoading
    /\ isLoading' = FALSE
    /\ \/ \E state \in states :
             /\ ApplySync(syncFromState(state, LocalId))
             /\ UNCHANGED error
       \/ /\ error' = "Failed to load game data."
          /\ NoSync
    /\ UNCHANGED <<settingVars, turnVars, selectedUnitId, pathCoords, pending, sent, issued>>

\* load()
Load == LoadFrom(InitialStates)

\* The page shows the board and its controls.
Rendered == ~isLoading /\ board.loaded

\* ------------------------------------------------------------------ effects

\* finishGame(winner, reason), called with no winner yet.
finishGame(winner, text, points) == [winner |-> winner, reason |-> [text |-> text, points |-> points]]

\* The resolution that gives equal scores to the player.
resolveByPoints_tieToPlayer(text) ==
    finishGame(IF damageScore.player >= damageScore.enemy THEN "player" ELSE "enemy",
               text, <<damageScore.player, damageScore.enemy>>)

resolveByPoints(text) ==
    LET playerPoints == damageScore.player
        enemyPoints == damageScore.enemy
        winner == IF playerPoints = enemyPoints THEN "draw"
                  ELSE IF playerPoints > enemyPoints THEN "player" ELSE "enemy"
    IN  finishGame(winner, text, <<playerPoints, enemyPoints>>)

\* The guard without its winner test, and with "finished" taken for a battle.
NotInBattle_deploymentOnly == phase = "deployment"

\* The guard the battle handlers and effects start with: phase !== "battle" || gameResult.winner.
NotInBattle == phase # "battle" \/ gameResult.winner # "null"

enemyAlive == Len(aliveEnemyUnits)

playerAlive == Len(alivePlayerUnits)

\* "Jesli zaznaczona jednostka umarla, odznacz ja."
DeselectDue == selectedUnit.uniqueId # 0 /\ selectedUnit.currentHp <= 0

\* The victory effect finishes the game.
VictoryDue == ~NotInBattle /\ (enemyAlive = 0 \/ playerAlive = 0)

\* The elimination branch that calls every wipe-out a draw.
eliminationResult_alwaysDraw(enemyAliveN, playerAliveN) ==
    IF enemyAliveN = 0 \/ playerAliveN = 0
    THEN finishGame("draw", "Both armies were destroyed", NoPoints)
    ELSE gameResult

\* The elimination branch of the victory effect, for those numbers of living units.
eliminationResult(enemyAliveN, playerAliveN) ==
    IF enemyAliveN = 0 /\ playerAliveN = 0 THEN finishGame("draw", "Both armies were destroyed", NoPoints)
    ELSE IF enemyAliveN = 0 THEN finishGame("player", "All enemies defeated", NoPoints)
    ELSE IF playerAliveN = 0 THEN finishGame("enemy", "Your units were destroyed", NoPoints)
    ELSE gameResult

VictoryResult ==
    IF victoryMode = "elimination"
    THEN eliminationResult(enemyAlive, playerAlive)
    ELSE resolveByPoints(IF enemyAlive = 0 /\ playerAlive = 0 THEN "Both armies were destroyed"
                         ELSE IF enemyAlive = 0 THEN "No enemy units remain"
                         ELSE "No player units remain")

\* The turn-limit test that fires in the last round already.
TurnLimitDue_atLimit == ~NotInBattle /\ victoryMode = "turns" /\ roundNumber >= turnLimit

TurnLimitDue == ~NotInBattle /\ victoryMode = "turns" /\ roundNumber > turnLimit

\* The AI turn effect starts a delegation.
AiTurnDue == ~NotInBattle /\ activeSide = "enemy" /\ ~isResolvingAi /\ enemyPlayerId # 0

EffectsPending == DeselectDue \/ VictoryDue \/ TurnLimitDue \/ AiTurnDue

\* The effects of one commit, in the order of their declaration; each sees the state
\* of that render.  The AI effect's own setIsResolvingAi(true) re-renders, which runs
\* its cleanup (isMounted = false) while the request is in flight.
RunEffects ==
    /\ Rendered
    /\ EffectsPending
    /\ LET finish == VictoryDue \/ TurnLimitDue
       IN  /\ gameResult' = IF TurnLimitDue THEN resolveByPoints("Turn limit reached")
                            ELSE IF VictoryDue THEN VictoryResult
                            ELSE gameResult
           /\ phase' = IF finish THEN "finished" ELSE phase
           /\ selectedUnitId' = IF finish \/ DeselectDue THEN 0 ELSE selectedUnitId
           /\ pathCoords' = IF finish THEN <<>> ELSE pathCoords
           /\ error' = IF finish THEN "null" ELSE error
    /\ isResolvingAi' = (isResolvingAi \/ AiTurnDue)
    /\ pending' = IF AiTurnDue THEN Append(pending, Request("AI")) ELSE pending
    /\ UNCHANGED <<board, localPlayerId, enemyPlayerId, playerUnits, enemyUnits, activeSide,
                   settingVars, roundNumber, acted, moved, isLoading, sent, issued>>

\* The page is idle: its effects have run.
Idle == Rendered /\ ~EffectsPending

\* ------------------------------------------------------------------ handlers

PlayerIdOf(owner) == IF owner = "player" THEN localPlayerId ELSE enemyPlayerId

Mark(sets, owner, id) ==
    IF owner = "player" THEN [sets EXCEPT !.player = @ \cup {id}]
    ELSE [sets EXCEPT !.enemy = @ \cup {id}]

SetOf(sets, owner) == IF owner = "player" THEN sets.player ELSE sets.enemy

canDropOnTile(c) ==
    /\ HasTile(board.tiles, c)
    /\ tileByCoord(board.tiles)[c].passable
    /\ c \notin DOMAIN occupiedMap(AllUnits)

\* The cells of the rendered grid: every column of the board in every row.
Grid ==
    IF board.tiles = {} THEN {}
    ELSE {<<q, t.r>> : q \in columns(board.tiles)[1]..columns(board.tiles)[2], t \in board.tiles}

UnitIds == {AllUnits[i].uniqueId : i \in 1..Len(AllUnits)}

\* selectUnit(unit)
selectUnit(unit) ==
    IF NotInBattle THEN Return
    ELSE IF activeSide # "player" \/ unit.owner # "player" \/ unit.currentHp <= 0 THEN Return
    ELSE /\ selectedUnitId' = unit.uniqueId
         /\ pathCoords' = <<>>
         /\ UNCHANGED <<syncVars, settingVars, turnVars, error, isLoading, pending, sent, issued>>

\* The tiles a move of unit su may not enter: those of the other living units.
blockedFor(su) ==
    {c \in DOMAIN occupiedMap(AllUnits) : occupiedMap(AllUnits)[c].uniqueId # su.uniqueId}

\* The move is sent: setUnitPositionOnBackend(unitId, destination, owner), with the
\* moved sets of this render kept for the code after the await.
SendMove(su, path) ==
    LET destination == path[Len(path)]
    IN  /\ error' = "null"
        /\ pathCoords' = path
        /\ IF PlayerIdOf(su.owner) = 0
           THEN /\ moved' = Mark(moved, su.owner, su.uniqueId)
                /\ UNCHANGED <<pending, sent, issued>>
           ELSE /\ CanSend
                /\ pending' = Append(pending,
                       [Request("MOVE") EXCEPT !.unitId = su.uniqueId, !.owner = su.owner,
                                               !.q = destination[1], !.r = destination[2],
                                               !.moved = moved])
                /\ sent' = sent + 1
                /\ issued' = Issue(su.uniqueId, "MOVE")
                /\ UNCHANGED moved
        /\ UNCHANGED <<syncVars, settingVars, roundNumber, isResolvingAi, acted, selectedUnitId, isLoading>>

\* handleMoveTo(q, r)
handleMoveTo(c) ==
    LET su == selectedUnit
    IN  IF NotInBattle \/ su.uniqueId = 0 \/ su.position = NoCoords THEN Return
        ELSE IF activeSide # "player" \/ su.owner # "player" \/ su.currentHp <= 0 THEN Return
        ELSE IF su.uniqueId \in SetOf(moved, su.owner) THEN Reject("This unit already moved this turn.")
        ELSE LET start == su.position
                 pathResult == findPath(board.tiles, start, c, blockedFor(su), Stats(su).speed)
                 destination == pathResult.path[Len(pathResult.path)]
             IN  IF pathResult = NoPath \/ pathResult.path = <<>>
                 THEN Reject("No reachable path within movement points.")
                 ELSE IF destination = start /\ c # start
                 THEN /\ error' = "No reachable path within movement points."
                      /\ pathCoords' = <<>>
                      /\ UNCHANGED <<syncVars, settingVars, turnVars, selectedUnitId, isLoading, pending, sent, issued>>
                 ELSE IF /\ destination \in DOMAIN occupiedMap(AllUnits)
                         /\ occupiedMap(AllUnits)[destination].uniqueId # su.uniqueId
                 THEN Reject("Destination is occupied.")
                 ELSE SendMove(su, pathResult.path)

\* The range test reading the unit's speed for its attackRange.
inRange_bySpeed(attacker, target) ==
    distance(attacker.position, IF target.position = NoCoords THEN <<0, 0>> ELSE target.position)
        <= Stats(attacker).speed

inRange(attacker, target) ==
    distance(attacker.position, IF target.position = NoCoords THEN <<0, 0>> ELSE target.position)
        <= Stats(attacker).attackRange

\* The attack value that is the melee one at every distance.
attackValue_meleeOnly(attacker, target) ==
    Stats(attacker).meleeAttack

attackValue(attacker, target) ==
    LET dist == distance(attacker.position,
                         IF target.position = NoCoords THEN <<0, 0>> ELSE target.position)
        isRanged == dist > 1 /\ Stats(attacker).rangedAttack > 0
    IN  IF isRanged THEN Stats(attacker).rangedAttack ELSE Stats(attacker).meleeAttack

\* The damage sent without the cap at the target's hit points.
damageApplied_uncapped(damage, target) ==
    damage

damageApplied(damage, target) ==
    Min(damage, target.currentHp)

\* handleAttack(target)
handleAttack(target) ==
    LET su == selectedUnit
        damage == attackValue(su, target)
    IN  IF NotInBattle \/ su.uniqueId = 0 \/ su.position = NoCoords THEN Return
        ELSE IF activeSide # "player" \/ su.owner # "player" \/ su.currentHp <= 0 THEN Return
        ELSE IF target.owner = su.owner
        THEN /\ selectedUnitId' = target.uniqueId
             /\ UNCHANGED <<syncVars, settingVars, turnVars, pathCoords, error, isLoading, pending, sent, issued>>
        ELSE IF target.currentHp <= 0 THEN Return
        ELSE IF su.uniqueId \in SetOf(acted, su.owner) THEN Reject("This unit already acted this turn.")
        ELSE IF ~inRange(su, target) THEN Reject("Target out of range.")
        ELSE IF damage <= 0 THEN Reject("This unit cannot deal damage.")
        ELSE /\ CanSend
             /\ error' = "null"
             /\ pathCoords' = <<>>
             /\ pending' = Append(pending,
                    [Request("ATTACK") EXCEPT !.unitId = su.uniqueId, !.owner = su.owner,
                                              !.targetId = target.uniqueId,
                                              !.damage = damageApplied(damage, target), !.acted = acted])
             /\ sent' = sent + 1
             /\ issued' = Issue(su.uniqueId, "ATTACK")
             /\ UNCHANGED <<syncVars, settingVars, turnVars, selectedUnitId, isLoading>>

\* onClick of the grid cell c.
TileClick(c) ==
    /\ Idle
    /\ IF phase = "battle" /\ activeSide # "player" THEN Return
       ELSE IF c \in DOMAIN occupiedMap(AllUnits)
       THEN LET occupant == occupiedMap(AllUnits)[c]
            IN  IF selectedUnit.uniqueId # 0 /\ occupant.owner # selectedUnit.owner
                THEN handleAttack(occupant)
                ELSE selectUnit(occupant)
       ELSE IF selectedUnit.uniqueId # 0 THEN handleMoveTo(c)
       ELSE Return

\* onClick of a row of the unit list: the living units, in deployment the player's only.
UnitListClick(i) ==
    /\ Idle
    /\ AllUnits[i].currentHp > 0
    /\ phase = "deployment" => AllUnits[i].owner = "player"
    /\ selectUnit(AllUnits[i])

\* The drop test without the column rule.
placeUnit_anyColumn(unitId, c) ==
    /\ IF phase # "deployment" THEN Return
       ELSE IF FindUnit(playerUnits, unitId).uniqueId = 0 THEN Return
       ELSE IF ~canDropOnTile(c) THEN Reject("Tile is occupied or impassable.")
       ELSE /\ error' = "null"
            /\ IF PlayerIdOf("player") = 0 THEN UNCHANGED <<pending, sent>>
               ELSE /\ CanSend
                    /\ sent' = sent + 1
                    /\ pending' = Append(pending,
                           [Request("PLACE") EXCEPT !.unitId = unitId, !.q = c[1], !.r = c[2]])
            /\ UNCHANGED <<syncVars, settingVars, turnVars, selectedUnitId, pathCoords, isLoading, issued>>

\* placeUnit(unitId, coords)
placeUnit(unitId, c) ==
    /\ IF phase # "deployment" THEN Return
       ELSE IF FindUnit(playerUnits, unitId).uniqueId = 0 THEN Return
       ELSE IF c[1] \notin allowedDeployColumns(board.tiles)
       THEN Reject("You can deploy player units only in the first 3 columns.")
       ELSE IF ~canDropOnTile(c) THEN Reject("Tile is occupied or impassable.")
       ELSE /\ error' = "null"
            /\ IF PlayerIdOf("player") = 0 THEN UNCHANGED <<pending, sent>>
               ELSE /\ CanSend
                    /\ sent' = sent + 1
                    /\ pending' = Append(pending,
                           [Request("PLACE") EXCEPT !.unitId = unitId, !.q = c[1], !.r = c[2]])
            /\ UNCHANGED <<syncVars, settingVars, turnVars, selectedUnitId, pathCoords, isLoading, issued>>

\* onTileDrop on the grid cell c of a row dragged from the unit list: the rows of the
\* living player units are draggable in deployment, and a cell takes the drop when its
\* onDragOver allowed it (canDrop).
onTileDrop(unitId, c) ==
    /\ Idle
    /\ phase = "deployment"
    /\ FindUnit(playerUnits, unitId).uniqueId # 0
    /\ FindUnit(playerUnits, unitId).currentHp > 0
    /\ c[1] \in allowedDeployColumns(board.tiles)
    /\ canDropOnTile(c)
    /\ placeUnit(unitId, c)

\* The victory-mode select and the turn-limit input, enabled in deployment.
SetVictoryMode(mode) ==
    /\ Idle
    /\ phase = "deployment"
    /\ mode # victoryMode
    /\ victoryMode' = mode
    /\ UNCHANGED <<syncVars, turnLimit, turnVars, selectedUnitId, pathCoords, error, isLoading, pending, sent, issued>>

SetTurnLimit(value) ==
    /\ Idle
    /\ phase = "deployment"
    /\ victoryMode = "turns"
    /\ turnLimit' = Max(1, IF value = 0 THEN 1 ELSE value)
    /\ UNCHANGED <<syncVars, victoryMode, turnVars, selectedUnitId, pathCoords, error, isLoading, pending, sent, issued>>

\* "End game now": resolveByPoints("Manual finish"); the button is enabled in battle
\* while there is no winner.
ManualFinish ==
    /\ Idle
    /\ ~NotInBattle
    /\ gameResult' = resolveByPoints("Manual finish")
    /\ phase' = "finished"
    /\ selectedUnitId' = 0
    /\ pathCoords' = <<>>
    /\ error' = "null"
    /\ UNCHANGED <<board, localPlayerId, enemyPlayerId, playerUnits, enemyUnits, activeSide,
                   settingVars, turnVars, isLoading, pending, sent, issued>>

\* endTurnInternal() without its first line: the END_TURN is sent whatever the turn.
endTurnInternal_unguarded ==
    /\ CanSend
    /\ pending' = Append(pending, Request("END_TURN"))
    /\ sent' = sent + 1
    /\ UNCHANGED <<syncVars, settingVars, turnVars, selectedUnitId, pathCoords, error, isLoading, issued>>

\* endTurnInternal()
endTurnInternal ==
    /\ IF gameResult.winner # "null" \/ activeSide # "player" \/ isResolvingAi THEN Return
       ELSE /\ CanSend
            /\ pending' = Append(pending, Request("END_TURN"))
            /\ sent' = sent + 1
            /\ UNCHANGED <<syncVars, settingVars, turnVars, selectedUnitId, pathCoords, error, isLoading, issued>>

\* The End turn button: shown in battle, disabled in the opponent's turn.
EndTurnClick ==
    /\ Idle
    /\ phase = "battle"
    /\ activeSide = "player"
    /\ ~isResolvingAi
    /\ endTurnInternal

\* ------------------------------------------------------------------ deployment -> battle

\* The mapping that gives an enemy unit without a player unit at its index the mirrored
\* tile of the first player unit.
updatedEnemy_wraps ==
    LET minQ == columns(board.tiles)[1]
        maxQ == columns(board.tiles)[2]
    IN  [idx \in 1..Len(enemyUnits) |->
            LET source == playerUnits[IF idx > Len(playerUnits) THEN 1 ELSE idx]
                clampedQ == Max(minQ, Min(maxQ, mirroredQ(board.tiles, source.position[1])))
            IN  IF source.position = NoCoords THEN enemyUnits[idx]
                ELSE [enemyUnits[idx] EXCEPT !.position = <<clampedQ, source.position[2]>>]]

\* updatedEnemy: enemy unit idx takes the mirrored tile of player unit idx.
updatedEnemy ==
    LET minQ == columns(board.tiles)[1]
        maxQ == columns(board.tiles)[2]
    IN  [idx \in 1..Len(enemyUnits) |->
            IF idx > Len(playerUnits) \/ playerUnits[idx].position = NoCoords THEN enemyUnits[idx]
            ELSE LET source == playerUnits[idx]
                     clampedQ == Max(minQ, Min(maxQ, mirroredQ(board.tiles, source.position[1])))
                 IN  [enemyUnits[idx] EXCEPT !.position = <<clampedQ, source.position[2]>>]]

\* The enemy MOVEs the loop of mirrorEnemyDeployment sends, one after the other.
MirrorRequests(units) ==
    LET placed == SelectSeq(units, LAMBDA u : u.position # NoCoords)
    IN  [i \in 1..Len(placed) |-> <<placed[i].uniqueId, placed[i].position>>]

MirrorRequest(todo) ==
    [Request("MIRROR") EXCEPT !.unitId = todo[1][1], !.owner = "enemy",
                              !.q = todo[1][2][1], !.r = todo[1][2][2], !.rest = Tail(todo)]

deployComplete == \A i \in 1..Len(playerUnits) : playerUnits[i].position # NoCoords

\* The reset that gives the first turn to the enemy.
BattleStart_enemyFirst ==
    [roundNumber |-> 1, gameResult |-> NoResult, phase |-> "battle", activeSide |-> "enemy",
     acted |-> EmptySets, moved |-> EmptySets, selectedUnitId |-> 0, pathCoords |-> <<>>]

\* "Reset stanu na poczatek bitwy": what mirrorEnemyDeployment sets after its loop.
BattleStart ==
    [roundNumber |-> 1, gameResult |-> NoResult, phase |-> "battle", activeSide |-> "player",
     acted |-> EmptySets, moved |-> EmptySets, selectedUnitId |-> 0, pathCoords |-> <<>>]

\* mirrorEnemyDeployment()
mirrorEnemyDeployment ==
    /\ IF ~deployComplete THEN Reject("Place all player units before continuing.")
       ELSE LET todo == IF enemyPlayerId = 0 THEN <<>> ELSE MirrorRequests(updatedEnemy)
            IN  /\ enemyUnits' = updatedEnemy
                /\ IF todo = <<>>
                   THEN /\ roundNumber' = BattleStart.roundNumber
                        /\ gameResult' = BattleStart.gameResult
                        /\ phase' = BattleStart.phase
                        /\ activeSide' = BattleStart.activeSide
                        /\ acted' = BattleStart.acted
                        /\ moved' = BattleStart.moved
                        /\ selectedUnitId' = BattleStart.selectedUnitId
                        /\ pathCoords' = BattleStart.pathCoords
                        /\ issued' = ZeroIssued
                        /\ UNCHANGED <<pending, sent>>
                   ELSE /\ CanSend
                        /\ pending' = Append(pending, MirrorRequest(todo))
                        /\ sent' = sent + 1
                        /\ UNCHANGED <<roundNumber, gameResult, phase, activeSide, acted, moved,
                                       selectedUnitId, pathCoords, issued>>
                /\ UNCHANGED <<board, localPlayerId, enemyPlayerId, playerUnits, settingVars,
                               isResolvingAi, error, isLoading>>

\* The Continue button: shown in deployment, disabled until every player unit is placed.
ContinueClick ==
    /\ Idle
    /\ phase = "deployment"
    /\ deployComplete
    /\ mirrorEnemyDeployment

\* placeUnit(unitId, coords) with any unit and any cell, whatever the grid would let drop.
PlaceCall(unitId, c) == Idle /\ placeUnit(unitId, c) /\ UNCHANGED aside

\* mirrorEnemyDeployment() from the Continue button with its disabled attribute left out.
MirrorCall == Idle /\ phase = "deployment" /\ mirrorEnemyDeployment /\ UNCHANGED aside

\* endTurnInternal() from the End turn button with its disabled attribute left out.
EndTurnCall == Idle /\ phase = "battle" /\ endTurnInternal /\ UNCHANGED aside

\* ------------------------------------------------------------------ round trips

Unsynced ==
    [board |-> board, localPlayerId |-> localPlayerId, enemyPlayerId |-> enemyPlayerId,
     playerUnits |-> playerUnits, enemyUnits |-> enemyUnits, phase |-> phase,
     activeSide |-> activeSide, gameResult |-> gameResult]

\* The handlers that catch a failed round trip and report it.
Caught == {"PLACE", "MOVE", "MIRROR", "END_TURN"}

\* The moved sets after the round trip of req: handleMoveTo marks the unit from the sets
\* of its render, whatever the outcome.
movedAfter(req, ok) ==
    IF req.kind = "MOVE" THEN Mark(req.moved, req.owner, req.unitId) ELSE moved

\* The acted sets after the round trip of req: handleAttack marks the unit from the sets
\* of its render once applyActionOnBackend returned.
actedAfter(req, ok) ==
    IF req.kind = "ATTACK" /\ ok THEN Mark(req.acted, req.owner, req.unitId) ELSE acted

\* The error shown after the round trip of req.
errorAfter(req, ok) ==
    IF req.kind = "END_TURN" /\ ok THEN "null"
    ELSE IF ~ok /\ req.kind \in Caught THEN "Failed to apply action."
    ELSE error

\* The answer to pending[i] arrives: applyActionOnBackend / applyAiTurnOnBackend sync the
\* snapshot or throw, then the code after the handler's await runs.
Respond(i, reply) ==
    LET req == pending[i]
        ok == reply.ok
        s == IF ok THEN syncFromState(reply.state, 0) ELSE Unsynced
        battleStarts == req.kind = "MIRROR" /\ req.rest = <<>>
        turnEnded == req.kind = "END_TURN" /\ ok
        reset == battleStarts \/ turnEnded
    IN  /\ Idle
        /\ board' = s.board
        /\ localPlayerId' = s.localPlayerId
        /\ enemyPlayerId' = s.enemyPlayerId
        /\ playerUnits' = s.playerUnits
        /\ enemyUnits' = s.enemyUnits
        /\ phase' = IF battleStarts THEN BattleStart.phase ELSE s.phase
        /\ activeSide' = IF battleStarts THEN BattleStart.activeSide ELSE s.activeSide
        /\ gameResult' = IF battleStarts THEN BattleStart.gameResult ELSE s.gameResult
        /\ roundNumber' = IF battleStarts THEN BattleStart.roundNumber
                          ELSE IF turnEnded THEN reply.state.turnNumber
                          ELSE roundNumber
        /\ acted' = IF battleStarts THEN BattleStart.acted
                    ELSE IF turnEnded THEN EmptySets ELSE actedAfter(req, ok)
        /\ moved' = IF battleStarts THEN BattleStart.moved
                    ELSE IF turnEnded THEN EmptySets ELSE movedAfter(req, ok)
        /\ selectedUnitId' = IF battleStarts THEN BattleStart.selectedUnitId
                             ELSE IF turnEnded THEN 0 ELSE selectedUnitId
        /\ pathCoords' = IF battleStarts THEN BattleStart.pathCoords
                         ELSE IF turnEnded THEN <<>> ELSE pathCoords
        /\ error' = errorAfter(req, ok)
        /\ pending' = IF req.kind = "MIRROR" /\ req.rest # <<>>
                      THEN Append(RemoveAt(pending, i), MirrorRequest(req.rest))
                      ELSE RemoveAt(pending, i)
        /\ issued' = IF reset THEN ZeroIssued ELSE issued
        /\ UNCHANGED <<settingVars, isResolvingAi, isLoading, sent>>

\* ------------------------------------------------------------------ stats recording

\* The stats effect after the commit of a step, for a signed-in user.  It runs when one of
\* its dependencies changed: gameResult.winner, or summarizedUnits and damageScore, which
\* are recomputed from the arrays every sync sets anew (synced).  It returns at its first
\* line without a winner or once hasRecordedStats is set, and sends the POST otherwise
\* without waiting for it.
StatsEffect(synced) ==
    LET changed == synced \/ gameResult'.winner # gameResult.winner
        run == changed /\ gameResult'.winner # "null" /\ ~stats.recorded
    IN  IF run
        THEN /\ stats.inFlight < MaxStatsInFlight
             /\ stats' = [stats EXCEPT !.inFlight = @ + 1]
        ELSE stats' = stats

\* sendStats after its await: setHasRecordedStats(true) when the response is ok, a
\* console.error otherwise.  The re-render on hasRecordedStats sends nothing.
StatsReply(ok) ==
    /\ stats.inFlight > 0
    /\ stats' = IF ok THEN [recorded |-> TRUE, inFlight |-> stats.inFlight - 1,
                            reports |-> stats.reports + 1]
                ELSE [stats EXCEPT !.inFlight = @ - 1]
    /\ UNCHANGED <<syncVars, settingVars, turnVars, selectedUnitId, pathCoords, error,
                   isLoading, pending, sent, issued, call>>

\* ------------------------------------------------------------------ the legacy board page

\* The single-action page (src/app/board/page.tsx of the earlier revision): both sides are
\* moved by hand, the local state is authoritative and the backend is only told of the
\* positions.  It has no state of its own for these variables of the later page.
legacyFrame ==
    <<localPlayerId, enemyPlayerId, victoryMode, turnLimit, roundNumber, gameResult,
      isResolvingAi, acted, sent, issued, call, stats>>

\* toOwned(list, owner) of the game in sessionStorage: no unit has a position yet.
LegacyArmy(owner) ==
    IF owner = "player"
    THEN << [uniqueId |-> 1, tpl |-> "infantry", position |-> NoCoords, owner |-> "player", currentHp |-> 2],
            [uniqueId |-> 2, tpl |-> "archer",   position |-> NoCoords, owner |-> "player", currentHp |-> 1] >>
    ELSE << [uniqueId |-> 3, tpl |-> "infantry", position |-> NoCoords, owner |-> "enemy", currentHp |-> 2],
            [uniqueId |-> 4, tpl |-> "archer",   position |-> NoCoords, owner |-> "enemy", currentHp |-> 1] >>

\* The effect that loads the game from sessionStorage.
LegacyLoad ==
    /\ isLoading
    /\ isLoading' = FALSE
    /\ \/ /\ error' = "No active game. Go back to /army and save an army."
          /\ UNCHANGED <<board, playerUnits, enemyUnits, phase, activeSide>>
       \/ /\ board' = [loaded |-> TRUE, tiles |-> GameTiles]
          /\ phase' = "deployment"
          /\ activeSide' = "player"
          /\ playerUnits' = LegacyArmy("player")
          /\ enemyUnits' = LegacyArmy("enemy")
          /\ UNCHANGED error
    /\ UNCHANGED <<selectedUnitId, pathCoords, moved, pending, legacyFrame>>

\* occupiedMap of the legacy page: every unit with a position, the later unit of the
\* list winning a shared key.
legacyOccupiedMap ==
    [c \in {AllUnits[i].position : i \in {j \in 1..Len(AllUnits) : AllUnits[j].position # NoCoords}} |->
        AllUnits[CHOOSE i \in 1..Len(AllUnits) :
                    /\ AllUnits[i].position = c
                    /\ \A j \in 1..Len(AllUnits) : AllUnits[j].position = c => j <= i]]

legacyCanDropOnTile(c) ==
    /\ HasTile(board.tiles, c)
    /\ tileByCoord(board.tiles)[c].passable
    /\ c \notin DOMAIN legacyOccupiedMap

\* The units with unit id at position c.
Positioned(units, id, c) ==
    [i \in 1..Len(units) |-> IF units[i].uniqueId = id THEN [units[i] EXCEPT !.position = c] ELSE units[i]]

\* onTileDrop -> placeUnit(unitId, coords) of a row dragged onto a cell whose onDragOver
\* allowed the drop; the PATCH is sent and nothing follows its await.
LegacyDrop(unitId, c) ==
    /\ board.loaded /\ ~isLoading
    /\ phase = "deployment"
    /\ FindUnit(playerUnits, unitId).uniqueId # 0
    /\ c[1] \in allowedDeployColumns(board.tiles)
    /\ legacyCanDropOnTile(c)
    /\ error' = "null"
    /\ playerUnits' = Positioned(playerUnits, unitId, c)
    /\ UNCHANGED <<board, enemyUnits, phase, activeSide, selectedUnitId, pathCoords, moved,
                   isLoading, pending, legacyFrame>>

\* mirrorEnemyDeployment() from the Continue button, enabled once every player unit is
\* placed: the enemy is mirrored and its PATCHes are awaited one after the other.
LegacyContinue ==
    /\ board.loaded /\ ~isLoading
    /\ phase = "deployment"
    /\ deployComplete
    /\ Len(pending) < MaxInFlight
    /\ enemyUnits' = updatedEnemy
    /\ pending' = Append(pending, [kind |-> "MIRROR"])
    /\ UNCHANGED <<board, playerUnits, phase, activeSide, selectedUnitId, pathCoords, error,
                   moved, isLoading, legacyFrame>>

\* mirrorEnemyDeployment() after its last await.
LegacyMirrorDone(i) ==
    /\ pending[i].kind = "MIRROR"
    /\ pending' = RemoveAt(pending, i)
    /\ phase' = "battle"
    /\ activeSide' = "player"
    /\ moved' = EmptySets
    /\ selectedUnitId' = 0
    /\ pathCoords' = <<>>
    /\ UNCHANGED <<board, playerUnits, enemyUnits, error, isLoading, legacyFrame>>

\* selectUnit(unit) of the legacy page
legacySelectUnit(unit) ==
    IF phase # "battle" \/ unit.owner # activeSide THEN Return
    ELSE /\ selectedUnitId' = unit.uniqueId
         /\ pathCoords' = <<>>
         /\ UNCHANGED <<board, playerUnits, enemyUnits, phase, activeSide, error, moved,
                        isLoading, pending, legacyFrame>>

\* A legacy handler that only reports msg.
legacyReject(msg, path) ==
    /\ error' = msg
    /\ pathCoords' = path
    /\ UNCHANGED <<board, playerUnits, enemyUnits, phase, activeSide, selectedUnitId, moved,
                   isLoading, pending, legacyFrame>>

\* handleMoveTo(q, r) of the legacy page up to its await: the unit is moved locally and
\* the PATCH is sent, with the moved sets, the active side and the units of this render
\* kept for the code after the await.
legacyHandleMoveTo(c) ==
    LET su == selectedUnit
    IN  IF phase # "battle" \/ su.uniqueId = 0 \/ su.position = NoCoords THEN Return
        ELSE IF su.owner # activeSide THEN Return
        ELSE LET start == su.position
                 blocked == {k \in DOMAIN legacyOccupiedMap : legacyOccupiedMap[k].uniqueId # su.uniqueId}
                 pathResult == findPath(board.tiles, start, c, blocked, Stats(su).speed)
                 destination == pathResult.path[Len(pathResult.path)]
                 unitsForSide == IF su.owner = "player" THEN playerUnits ELSE enemyUnits
             IN  IF pathResult = NoPath \/ pathResult.path = <<>>
                 THEN legacyReject("No reachable path within movement points.", pathCoords)
                 ELSE IF destination = start /\ c # start
                 THEN legacyReject("No reachable path within movement points.", <<>>)
                 ELSE IF /\ destination \in DOMAIN legacyOccupiedMap
                         /\ legacyOccupiedMap[destination].uniqueId # su.uniqueId
                 THEN legacyReject("Destination is occupied.", pathCoords)
                 ELSE /\ Len(pending) < MaxInFlight
                      /\ error' = "null"
                      /\ pathCoords' = pathResult.path
                      /\ playerUnits' = IF su.owner = "player"
                                        THEN Positioned(playerUnits, su.uniqueId, destination)
                                        ELSE playerUnits
                      /\ enemyUnits' = IF su.owner = "enemy"
                                       THEN Positioned(enemyUnits, su.uniqueId, destination)
                                       ELSE enemyUnits
                      /\ pending' = Append(pending,
                             [kind |-> "MOVE", unitId |-> su.uniqueId, owner |-> su.owner,
                              moved |-> moved, side |-> activeSide,
                              units |-> {unitsForSide[i].uniqueId : i \in 1..Len(unitsForSide)}])
                      /\ UNCHANGED <<board, phase, activeSide, selectedUnitId, moved, isLoading,
                                     legacyFrame>>

\* onClick of the grid cell c of the legacy page.
LegacyTileClick(c) ==
    /\ board.loaded /\ ~isLoading
    /\ IF c \in DOMAIN legacyOccupiedMap THEN legacySelectUnit(legacyOccupiedMap[c])
       ELSE IF selectedUnit.uniqueId # 0 THEN legacyHandleMoveTo(c)
       ELSE Return

\* onClick of a row of the units panel: the player's units in deployment, the active
\* side's in battle.
LegacyUnitListClick(i) ==
    /\ board.loaded /\ ~isLoading
    /\ AllUnits[i].owner = (IF phase = "deployment" THEN "player" ELSE activeSide)
    /\ legacySelectUnit(AllUnits[i])

\* handleMoveTo of the legacy page after its await: the unit is marked in the sets of
\* the handler's render, and the turn passes when every unit of that render's side is
\* marked.
LegacyMoveDone(i) ==
    LET req == pending[i]
        nextMoved == Mark(req.moved, req.owner, req.unitId)
        allMoved == req.units \subseteq SetOf(nextMoved, req.owner)
        resetForNextRound == req.side = "enemy"
    IN  /\ req.kind = "MOVE"
        /\ pending' = RemoveAt(pending, i)
        /\ moved' = IF allMoved /\ resetForNextRound THEN EmptySets ELSE nextMoved
        /\ activeSide' = IF allMoved THEN (IF req.side = "player" THEN "enemy" ELSE "player")
                         ELSE activeSide
        /\ selectedUnitId' = IF allMoved THEN 0 ELSE selectedUnitId
        /\ pathCoords' = IF allMoved THEN <<>> ELSE pathCoords
        /\ UNCHANGED <<board, playerUnits, enemyUnits, phase, error, isLoading, legacyFrame>>

\* ------------------------------------------------------------------ properties

\* A step that sends a request of that kind: the handlers append to pending.
Sends(kind) == Len(pending') = Len(pending) + 1 /\ pending'[Len(pending')].kind = kind

\* A step that is no reply arriving.
NoReplyStep == Len(pending') >= Len(pending)

\* Another living unit stands on c.
OccupiedByOther(c, id) ==
    \E i \in 1..Len(AllUnits) :
        AllUnits[i].currentHp > 0 /\ AllUnits[i].uniqueId # id /\ AllUnits[i].position = c

Manhattan(a, b) == Abs(a[1] - b[1]) + Abs(a[2] - b[2])

RECURSIVE WithinReach(_, _, _, _)
\* The tiles a walk from c reaches with that budget of movement points.
WithinReach(tiles, blocked, c, budget) ==
    {c} \cup UNION { WithinReach(tiles, blocked, <<t.q, t.r>>, budget - t.movementCost) :
                        t \in {x \in tiles : /\ x.passable
                                             /\ <<x.q, x.r>> \notin blocked
                                             /\ Manhattan(c, <<x.q, x.r>>) = 1
                                             /\ x.movementCost <= budget} }

\* C1: once the game result has a winner, no later step changes or clears the winner,
\* a reply that was in flight when the game finished included.
C1_WinnerIsFinal == [][gameResult.winner # "null" => gameResult'.winner = gameResult.winner]_vars

\* C2: the phase never goes from battle back to deployment and never leaves finished.
C2_PhaseOnlyAdvances ==
    [][/\ phase = "battle" => phase' # "deployment"
       /\ phase = "finished" => phase' = "finished"]_vars

\* C3: while the game result has a winner, a step that is no reply arriving (a click, a
\* drop, an effect) sends no request and leaves the units and the winner as they are.
C3_NoOpAfterWinner ==
    [][(gameResult.winner # "null" /\ NoReplyStep)
          => /\ pending' = pending
             /\ playerUnits' = playerUnits
             /\ enemyUnits' = enemyUnits
             /\ gameResult' = gameResult]_vars

\* C3, its case: the game has a winner and the page takes clicks, with a living player
\* unit next to a free tile and a request still affordable.
C3_ClicksAfterWinner ==
    /\ gameResult.winner # "null"
    /\ Idle
    /\ CanSend
    /\ \E i \in 1..Len(playerUnits) :
          /\ playerUnits[i].currentHp > 0
          /\ playerUnits[i].position # NoCoords
          /\ \E c \in Grid : Manhattan(c, playerUnits[i].position) = 1 /\ canDropOnTile(c)

\* C4: a step that sends a battle MOVE sends it to a tile that no other living unit
\* stands on in the state the handler validated.
C4_MoveToFreeTile ==
    [][Sends("MOVE")
          => LET req == pending'[Len(pending')]
             IN  ~OccupiedByOther(<<req.q, req.r>>, req.unitId)]_vars

\* C4, its case: a MOVE is in flight for a unit that stands next to another living unit.
C4_MoveSentBesideUnit ==
    \E i \in 1..Len(pending) :
        /\ pending[i].kind = "MOVE"
        /\ LET mover == FindUnit(AllUnits, pending[i].unitId)
           IN  /\ mover.position # NoCoords
               /\ mover.position # <<pending[i].q, pending[i].r>>
               /\ \E c \in Grid : Manhattan(c, mover.position) = 1 /\ OccupiedByOther(c, mover.uniqueId)

\* C5: between two successful END_TURNs a unit issues at most one MOVE and at most one
\* ATTACK.
C5_OneMoveOneAttackPerTurn ==
    \A id \in DOMAIN issued : issued[id].moves <= 1 /\ issued[id].attacks <= 1

\* C6: at most one MOVE, ATTACK, END_TURN or AI-turn request is in flight.
C6_OneRequestInFlight ==
    Cardinality({i \in 1..Len(pending) : pending[i].kind \in {"MOVE", "ATTACK", "END_TURN", "AI"}}) <= 1

\* C7: when the round trip of a MOVE, ATTACK or END_TURN fails, positions, HP, phase,
\* activeSide, roundNumber and the moved and acted sets stay as they were and an error
\* is shown.
C7_FailureKeepsState ==
    [][\A i \in 1..Len(pending) :
          (pending[i].kind \in {"MOVE", "ATTACK", "END_TURN"} /\ Respond(i, Failure))
             => /\ playerUnits' = playerUnits
                /\ enemyUnits' = enemyUnits
                /\ phase' = phase
                /\ activeSide' = activeSide
                /\ roundNumber' = roundNumber
                /\ moved' = moved
                /\ acted' = acted
                /\ error' # "null"]_vars

\* C8: when the delegated AI turn fails, an error is shown and the units, the board, the
\* phase, activeSide and roundNumber stay as they were.
C8_AiFailureReported ==
    [][\A i \in 1..Len(pending) :
          (pending[i].kind = "AI" /\ Respond(i, Failure))
             => /\ error' # "null"
                /\ board' = board
                /\ playerUnits' = playerUnits
                /\ enemyUnits' = enemyUnits
                /\ phase' = phase
                /\ activeSide' = activeSide
                /\ roundNumber' = roundNumber]_vars

\* The move of unit id to c is illegal: not in battle, not the player's turn, the unit dead
\* or not the player's, a MOVE already issued for it this turn, no tile but its own within
\* its speed, or another living unit on c.
IllegalMove(id, c) ==
    LET unit == FindUnit(AllUnits, id)
        others == {AllUnits[i].position :
                      i \in {j \in 1..Len(AllUnits) : /\ AllUnits[j].currentHp > 0
                                                      /\ AllUnits[j].uniqueId # id
                                                      /\ AllUnits[j].position # NoCoords}}
    IN  \/ phase # "battle"
        \/ activeSide # "player"
        \/ unit.currentHp <= 0
        \/ unit.owner # "player"
        \/ IssuedOf(id).moves > 0
        \/ unit.position = NoCoords
        \/ WithinReach(board.tiles, others, unit.position, Stats(unit).speed) = {unit.position}
        \/ OccupiedByOther(c, id)

\* C9: no step sends a MOVE that is illegal.
C9_IllegalMoveNotSent ==
    [][Sends("MOVE")
          => LET req == pending'[Len(pending')]
             IN  ~IllegalMove(req.unitId, <<req.q, req.r>>)]_vars

\* A living enemy unit stands on c, farther from the selected unit than its attackRange.
OutOfRangeTarget(c) ==
    /\ selectedUnit.uniqueId # 0
    /\ selectedUnit.position # NoCoords
    /\ \E i \in 1..Len(enemyUnits) : enemyUnits[i].currentHp > 0 /\ enemyUnits[i].position = c
    /\ Manhattan(selectedUnit.position, c) > Templates[selectedUnit.tpl].attackRange

\* C10: a click on an enemy farther than |dq| + |dr| = attackRange from the selected
\* unit sends nothing, leaves every HP as it is and marks no unit as having acted; and
\* every ATTACK that is sent has its target within the attacker's attackRange.
C10_OutOfRangeAttackRejected ==
    [][/\ \A c \in Grid :
             (OutOfRangeTarget(c) /\ TileClick(c))
                => /\ pending' = pending
                   /\ playerUnits' = playerUnits
                   /\ enemyUnits' = enemyUnits
                   /\ acted' = acted
       /\ Sends("ATTACK")
             => LET req == pending'[Len(pending')]
                IN  Manhattan(FindUnit(AllUnits, req.unitId).position,
                              FindUnit(AllUnits, req.targetId).position)
                       <= Templates[FindUnit(AllUnits, req.unitId).tpl].attackRange]_vars

\* C10, its case: the click on an enemy in another row and out of range was rejected.
C10_RejectedOutOfRange ==
    /\ error = "Target out of range."
    /\ \E i \in 1..Len(enemyUnits) :
          /\ enemyUnits[i].position # NoCoords
          /\ OutOfRangeTarget(enemyUnits[i].position)
          /\ enemyUnits[i].position[2] # selectedUnit.position[2]

\* The attack value of the unit's type against that target: the ranged one at more
\* than one step when the type has one, the melee one otherwise.
SelectedAttack(attacker, target) ==
    IF /\ Manhattan(attacker.position, target.position) > 1
       /\ Templates[attacker.tpl].rangedAttack > 0
    THEN Templates[attacker.tpl].rangedAttack
    ELSE Templates[attacker.tpl].meleeAttack

\* C11: every ATTACK that is sent carries damage = min(selected attack value, the
\* defender's current HP), which is at least 1 and at most the defender's current HP,
\* so the defender's HP less the damage is never below 0.
C11_DamageCappedAtDefenderHp ==
    [][Sends("ATTACK")
          => LET req == pending'[Len(pending')]
                 attacker == FindUnit(AllUnits, req.unitId)
                 target == FindUnit(AllUnits, req.targetId)
                 value == SelectedAttack(attacker, target)
             IN  /\ req.damage = (IF value <= target.currentHp THEN value ELSE target.currentHp)
                 /\ 1 <= req.damage
                 /\ req.damage <= target.currentHp
                 /\ target.currentHp - req.damage >= 0]_vars

\* C11, its case: an ATTACK is in flight whose damage is the defender's HP, lower than
\* the attack value of the attacker.
C11_CappedAttackInFlight ==
    \E i \in 1..Len(pending) :
        /\ pending[i].kind = "ATTACK"
        /\ FindUnit(AllUnits, pending[i].unitId).position # NoCoords
        /\ FindUnit(AllUnits, pending[i].targetId).position # NoCoords
        /\ pending[i].damage = FindUnit(AllUnits, pending[i].targetId).currentHp
        /\ pending[i].damage < SelectedAttack(FindUnit(AllUnits, pending[i].unitId),
                                              FindUnit(AllUnits, pending[i].targetId))

\* The selected player unit may attack on this turn and the one living unit on c is an
\* enemy within its attackRange.
AttackCase(c) ==
    /\ phase = "battle" /\ gameResult.winner = "null" /\ activeSide = "player"
    /\ selectedUnit.uniqueId # 0
    /\ selectedUnit.owner = "player"
    /\ selectedUnit.currentHp > 0
    /\ selectedUnit.position # NoCoords
    /\ selectedUnit.uniqueId \notin acted.player
    /\ \E i \in 1..Len(enemyUnits) : enemyUnits[i].currentHp > 0 /\ enemyUnits[i].position = c
    /\ \A i \in 1..Len(playerUnits) :
          playerUnits[i].currentHp > 0 => playerUnits[i].position # c
    /\ Manhattan(selectedUnit.position, c) <= Templates[selectedUnit.tpl].attackRange

\* The living enemy on c.
EnemyOn(c) ==
    enemyUnits[CHOOSE i \in 1..Len(enemyUnits) :
                  enemyUnits[i].currentHp > 0 /\ enemyUnits[i].position = c]

\* C12: the attack value is rangedAttack exactly when the distance is above 1 and
\* rangedAttack > 0, and meleeAttack otherwise. A click whose value is <= 0 sends
\* nothing and changes nothing but the error message; a click whose value is positive
\* sends an ATTACK of that value capped at the target's HP; no other ATTACK is sent.
C12_AttackValueSelection ==
    [][/\ \A c \in Grid :
             (AttackCase(c) /\ TileClick(c))
                => IF SelectedAttack(selectedUnit, EnemyOn(c)) <= 0
                   THEN UNCHANGED <<syncVars, settingVars, turnVars, selectedUnitId,
                                    pathCoords, isLoading, pending, sent, issued>>
                   ELSE /\ Sends("ATTACK")
                        /\ pending'[Len(pending')].unitId = selectedUnit.uniqueId
                        /\ pending'[Len(pending')].targetId = EnemyOn(c).uniqueId
                        /\ pending'[Len(pending')].damage
                              = Min(SelectedAttack(selectedUnit, EnemyOn(c)), EnemyOn(c).currentHp)
       /\ Sends("ATTACK")
             => LET req == pending'[Len(pending')]
                IN  SelectedAttack(FindUnit(AllUnits, req.unitId),
                                   FindUnit(AllUnits, req.targetId)) >= req.damage]_vars

\* C12, its case: the attack of a unit whose selected value is 0, the archer beside an
\* enemy, was rejected.
C12_ZeroValueRejected ==
    /\ error = "This unit cannot deal damage."
    /\ \E c \in Grid : AttackCase(c) /\ SelectedAttack(selectedUnit, EnemyOn(c)) <= 0

\* The number of units of that list with HP left.
Living(units) == Cardinality({i \in 1..Len(units) : units[i].currentHp > 0})

\* The battle is on, without a winner, in that victory mode.
OpenBattle(mode) == phase = "battle" /\ gameResult.winner = "null" /\ victoryMode = mode

\* The step is the manual finish.
ManualFinishStep == gameResult'.reason.text = "Manual finish"

C14_PointsModeOnlyManualFinish ==
    [][(OpenBattle("points") /\ NoReplyStep /\ ~ManualFinishStep)
          => gameResult'.winner = "null" /\ phase' = "battle"]_vars

\* The victory effect is about to end the game for one side's wipe-out, the other side
\* having living units.
OneSideWiped ==
    /\ phase = "battle" /\ gameResult.winner = "null"
    /\ (Living(enemyUnits) = 0) # (Living(playerUnits) = 0)

\* C15: when the game ends by itself because exactly one side has no living units, the
\* winner is the side that has some, in every victory mode.
C15_SurvivorWins ==
    [][(OneSideWiped /\ gameResult'.winner # "null")
          => gameResult'.winner = (IF Living(enemyUnits) = 0 THEN "player" ELSE "enemy")]_vars

RECURSIVE HpLost(_, _)
\* The HP the first n units of that list have lost, a unit above its maxHp counting 0.
HpLost(units, n) ==
    IF n = 0 THEN 0
    ELSE HpLost(units, n - 1)
            + (IF units[n].currentHp < Templates[units[n].tpl].maxHp
               THEN Templates[units[n].tpl].maxHp - units[n].currentHp
               ELSE 0)

\* An infantry and an archer with those HP.
PairWithHp(hp1, hp2) ==
    << [NoUnit EXCEPT !.uniqueId = 1, !.tpl = "infantry", !.currentHp = hp1],
       [NoUnit EXCEPT !.uniqueId = 2, !.tpl = "archer", !.currentHp = hp2] >>

\* C16: a resolution by points gives the player the HP lost by the enemy's units and
\* the enemy the HP lost by the player's units, a unit above its maxHp counting 0; the
\* strictly higher score wins and equal scores are a draw.
C16_PointsResolution ==
    [][(gameResult.winner = "null" /\ gameResult'.reason.points # NoPoints)
          => LET playerPoints == HpLost(enemyUnits, Len(enemyUnits))
                 enemyPoints == HpLost(playerUnits, Len(playerUnits))
             IN  /\ gameResult'.reason.points = <<playerPoints, enemyPoints>>
                 /\ playerPoints > enemyPoints => gameResult'.winner = "player"
                 /\ enemyPoints > playerPoints => gameResult'.winner = "enemy"
                 /\ playerPoints = enemyPoints => gameResult'.winner = "draw"
                 /\ \A hp1, hp2 \in 0..3 :
                       DamageTaken(PairWithHp(hp1, hp2)) = HpLost(PairWithHp(hp1, hp2), 2)]_vars

\* C16, its case: a game resolved by points at equal scores above 0 is a draw.
C16_EqualScoresDraw ==
    /\ gameResult.winner = "draw"
    /\ gameResult.reason.points # NoPoints
    /\ gameResult.reason.points[1] = gameResult.reason.points[2]
    /\ gameResult.reason.points[1] > 0

\* C17: in turn-limit mode, in a battle without a winner: with roundNumber > turnLimit
\* the next step finishes the game with the scores and the winner of a resolution by
\* points; with roundNumber <= turnLimit and living units on both sides no step but a
\* manual finish or a reply of the backend ends the battle.
C17_TurnLimit ==
    [][OpenBattle("turns")
          => /\ roundNumber > turnLimit
                   => LET playerPoints == HpLost(enemyUnits, Len(enemyUnits))
                          enemyPoints == HpLost(playerUnits, Len(playerUnits))
                      IN  /\ phase' = "finished"
                          /\ gameResult'.reason.points = <<playerPoints, enemyPoints>>
                          /\ gameResult'.winner
                                = (IF playerPoints = enemyPoints THEN "draw"
                                   ELSE IF playerPoints > enemyPoints THEN "player"
                                   ELSE "enemy")
             /\ (/\ roundNumber <= turnLimit
                 /\ Living(playerUnits) > 0 /\ Living(enemyUnits) > 0
                 /\ NoReplyStep /\ ~ManualFinishStep)
                   => gameResult'.winner = "null" /\ phase' = "battle"]_vars

\* C17, its case: the game was finished by the turn limit, the round being past it.
C17_FinishedByTurnLimit ==
    /\ victoryMode = "turns"
    /\ phase = "finished"
    /\ roundNumber > turnLimit
    /\ gameResult.winner # "null"
    /\ gameResult.reason.text = "Turn limit reached"

\* The call of findPath has returned a path.
Returned == call.returned /\ call.result # NoPath

\* The tile of the call's board at c is passable.
OpenTile(c) == \E t \in call.tiles : t.q = c[1] /\ t.r = c[2] /\ t.passable

\* C18: on every board and from every start, findPath(start, start, {}, 0) returns
\* cost 0 and the path [start].
C18_TrivialPath ==
    (call.returned /\ call.target = call.start /\ call.blocked = {} /\ call.maxCost = 0)
        => call.result = [cost |-> 0, path |-> <<call.start>>]

\* C18, its case: such a call has returned, from a tile with a passable neighbour.
C18_TrivialCallReturned ==
    /\ call.returned /\ call.target = call.start /\ call.blocked = {} /\ call.maxCost = 0
    /\ OpenTile(call.start)
    /\ \E c \in {<<t.q, t.r>> : t \in call.tiles} : Manhattan(c, call.start) = 1 /\ OpenTile(c)

RECURSIVE EnteredCost(_, _, _)
\* The movementCost of the tiles entered along path[1..n]: every one but the first.
EnteredCost(tiles, path, n) ==
    IF n <= 1 THEN 0
    ELSE EnteredCost(tiles, path, n - 1)
            + (IF \E t \in tiles : <<t.q, t.r>> = path[n]
               THEN (CHOOSE t \in tiles : <<t.q, t.r>> = path[n]).movementCost
               ELSE 0)

\* C19: the cost findPath returns is the sum of the movementCost of the tiles entered
\* along the returned path, and it is at most maxCost.
C19_CostIsPathCost ==
    Returned
        => /\ call.result.cost
                = EnteredCost(call.tiles, call.result.path, Len(call.result.path))
           /\ call.result.cost <= call.maxCost

\* C19, its case: a returned path enters two tiles of different movementCost.
C19_MixedCostPath ==
    /\ Returned
    /\ Len(call.result.path) = 3
    /\ call.result.cost = 1 + MaxTileCost

\* The i-th coordinate of the returned path is on a passable tile and not blocked.
FreeAt(i) == call.result.path[i] \notin call.blocked /\ OpenTile(call.result.path[i])

\* Consecutive coordinates of the returned path are one of the four steps apart.
SingleSteps ==
    \A i \in 1..(Len(call.result.path) - 1) :
        <<call.result.path[i + 1][1] - call.result.path[i][1],
          call.result.path[i + 1][2] - call.result.path[i][2]>>
            \in {<<1, 0>>, <<-1, 0>>, <<0, 1>>, <<0, -1>>}

\* C20 as stated: no coordinate of the returned path is blocked, impassable or without
\* a tile, and consecutive coordinates are one of the four steps apart.
C20_WholePathFree ==
    Returned => (\A i \in 1..Len(call.result.path) : FreeAt(i)) /\ SingleSteps

\* C20, amended: the returned path begins at the start, whatever the start is; no
\* coordinate after the start is blocked, impassable or without a tile, and consecutive
\* coordinates are one of the four steps apart.
C20_PathFreeAfterStart ==
    Returned
        => /\ call.result.path[1] = call.start
           /\ \A i \in 2..Len(call.result.path) : FreeAt(i)
           /\ SingleSteps

\* C20, its case: a returned path of three coordinates on a board with a blocked
\* coordinate and an impassable tile.
C20_DetourReturned ==
    /\ Returned
    /\ Len(call.result.path) = 3
    /\ call.blocked # {}
    /\ \E t \in call.tiles : ~t.passable

\* The coordinates a walk from the call's start reaches within that budget.
ReachWithin(budget) == WithinReach(call.tiles, call.blocked, call.start, budget)

\* The lowest budget that reaches c, a coordinate of ReachWithin(call.maxCost).
LeastCost(c) == CHOOSE b \in 0..call.maxCost : c \in ReachWithin(b) /\ \A a \in 0..(b - 1) : c \notin ReachWithin(a)

\* The last coordinate of the returned path.
Destination == call.result.path[Len(call.result.path)]

\* C21: when the target can be reached from the start within maxCost over passable,
\* unblocked tiles, findPath returns a path that ends on the target.
C21_ReachableTargetChosen ==
    (call.returned /\ call.target \in ReachWithin(call.maxCost))
        => Returned /\ Destination = call.target

\* C21, its case: the returned path ends on a target two steps from the start, other
\* tiles being reachable for less.
C21_FarTargetReached ==
    /\ Returned
    /\ call.target \in ReachWithin(call.maxCost)
    /\ Len(call.result.path) = 3
    /\ Destination = call.target
    /\ \E c \in ReachWithin(call.maxCost) \ {call.start} : LeastCost(c) < call.result.cost

\* C22: when the target cannot be reached within maxCost, the destination is one of the
\* coordinates reachable within maxCost, the start included, no other of them is closer
\* to the target by |dq| + |dr|, and none as close is reached for less.
C22_ClosestReachableChosen ==
    (call.returned /\ call.target \notin ReachWithin(call.maxCost))
        => /\ Returned
           /\ Destination \in ReachWithin(call.maxCost)
           /\ call.result.cost = LeastCost(Destination)
           /\ \A c \in ReachWithin(call.maxCost) :
                 /\ Manhattan(Destination, call.target) <= Manhattan(c, call.target)
                 /\ Manhattan(Destination, call.target) = Manhattan(c, call.target)
                       => call.result.cost <= LeastCost(c)

\* C22, its case: the target is out of reach and two reachable tiles are as close to
\* it, at different costs; the path ends on the cheaper one.
C22_TieBrokenByCost ==
    /\ Returned
    /\ call.target \notin ReachWithin(call.maxCost)
    /\ \E c \in ReachWithin(call.maxCost) :
          /\ c # Destination
          /\ Manhattan(c, call.target) = Manhattan(Destination, call.target)
          /\ LeastCost(c) > call.result.cost

\* C24: the phase goes from deployment to battle only with every player unit holding a
\* position; and mirrorEnemyDeployment called with a player unit unplaced sets its
\* error, moves no enemy unit, sends no request and leaves the phase deployment.
C24_BattleNeedsFullDeployment ==
    [][/\ (phase = "deployment" /\ phase' = "battle")
             => \A i \in 1..Len(playerUnits') : playerUnits'[i].position # NoCoords
       /\ (/\ phase = "deployment"
           /\ \E i \in 1..Len(playerUnits) : playerUnits[i].position = NoCoords
           /\ mirrorEnemyDeployment)
             => /\ error' = "Place all player units before continuing."
                /\ enemyUnits' = enemyUnits
                /\ pending' = pending
                /\ phase' = "deployment"]_vars

\* The column of c is one of the first three of the board, c holds a passable tile, and
\* no living unit stands on c.
GoodPlacement(c) ==
    /\ \E k \in 0..2 : \A t \in board.tiles : c[1] - k <= t.q
    /\ \E k \in 0..2 : \E t \in board.tiles : c[1] - k = t.q /\ \A u \in board.tiles : t.q <= u.q
    /\ \E t \in board.tiles : t.q = c[1] /\ t.r = c[2] /\ t.passable
    /\ ~OccupiedByOther(c, 0)

\* C23: in deployment placeUnit sends the MOVE of a player unit only to a passable,
\* unoccupied tile of the first three columns, and does send it there; every other
\* placement sets an error, sends nothing and changes no unit; outside deployment
\* placeUnit changes nothing.
C23_PlacementRules ==
    [][\A i \in 1..Len(playerUnits) : \A c \in Grid :
          PlaceCall(playerUnits[i].uniqueId, c)
             => IF phase # "deployment" THEN UNCHANGED vars
                ELSE IF GoodPlacement(c)
                THEN /\ Sends("PLACE")
                     /\ pending'[Len(pending')].unitId = playerUnits[i].uniqueId
                     /\ <<pending'[Len(pending')].q, pending'[Len(pending')].r>> = c
                     /\ playerUnits' = playerUnits /\ enemyUnits' = enemyUnits
                ELSE /\ error' # "null"
                     /\ pending' = pending
                     /\ playerUnits' = playerUnits /\ enemyUnits' = enemyUnits
                     /\ phase' = phase]_vars

\* C23, its case: a placement outside the first three columns was rejected.
C23_ColumnRejected ==
    /\ phase = "deployment"
    /\ error = "You can deploy player units only in the first 3 columns."
    /\ pending = <<>>

\* The lowest and the highest column of the board.
MinQ == CHOOSE q \in {t.q : t \in board.tiles} : \A t \in board.tiles : q <= t.q

MaxQ == CHOOSE q \in {t.q : t \in board.tiles} : \A t \in board.tiles : q >= t.q

\* The position across the board from c: column maxQ - (q - minQ), kept within
\* minQ .. maxQ, in the same row.
Across(c) ==
    LET q == MaxQ - (c[1] - MinQ)
    IN  <<IF q < MinQ THEN MinQ ELSE IF q > MaxQ THEN MaxQ ELSE q, c[2]>>

\* A row of seven tiles, columns 0 .. 6, in row 3.
SevenColumns == {[q |-> q, r |-> 3, passable |-> TRUE, movementCost |-> 1] : q \in 0..6}

\* C25: the step that starts the mirrored deployment puts every enemy unit i that has a
\* player unit i across the board from it, at (maxQ - (q - minQ), r), and sends that
\* position for the first of them; on columns 0 .. 6 column 1 is mirrored to column 5.
C25_EnemyMirrored ==
    [][Sends("MIRROR")
          => /\ \A i \in 1..Len(enemyUnits) :
                   i <= Len(playerUnits)
                      => enemyUnits'[i].position = Across(playerUnits[i].position)
             /\ <<pending'[Len(pending')].q, pending'[Len(pending')].r>>
                   = Across(playerUnits[1].position)
             /\ mirroredQ(SevenColumns, 1) = 5]_vars

\* C25, its case: the enemy's MOVE is in flight, to the tile across the board from the
\* first player unit, which stands in the upper row.
C25_MirrorInFlight ==
    /\ \E i \in 1..Len(pending) : pending[i].kind = "MIRROR"
    /\ playerUnits[1].position # NoCoords
    /\ playerUnits[1].position[2] = 1
    /\ enemyUnits[1].position = Across(playerUnits[1].position)
    /\ enemyUnits[1].position # playerUnits[1].position

\* C26: the step on which mirrorEnemyDeployment gets the reply of its last MOVE, failed
\* or not, ends with phase = battle, roundNumber = 1, activeSide = player, empty acted
\* and moved sets on both sides, no winner and no selected unit.
C26_BattleStartState ==
    [][\A i \in 1..Len(pending) :
          (pending[i].kind = "MIRROR" /\ pending[i].rest = <<>>
              /\ \E reply \in Replies(pending[i]) : Respond(i, reply))
             => /\ phase' = "battle"
                /\ roundNumber' = 1
                /\ activeSide' = "player"
                /\ acted' = [player |-> {}, enemy |-> {}]
                /\ moved' = [player |-> {}, enemy |-> {}]
                /\ gameResult'.winner = "null"
                /\ selectedUnitId' = 0]_vars

\* C26, its case: the battle has just started, the enemy's MOVE being the one request
\* sent and answered.
C26_BattleJustStarted ==
    /\ phase = "battle"
    /\ sent = 1 /\ pending = <<>>
    /\ \A i \in 1..Len(enemyUnits) : enemyUnits[i].position # NoCoords
    /\ roundNumber = 1 /\ activeSide = "player"

Range(s) == {s[i] : i \in DOMAIN s}

\* The local state after the step holds the tiles of that snapshot and one unit for each
\* of its units, with the snapshot's currentHP and (q, r), and no other unit.
SyncedExactly(state) ==
    /\ board'.tiles = state.tiles
    /\ Len(playerUnits') + Len(enemyUnits') = Len(state.units)
    /\ \A k \in 1..Len(state.units) :
          \E u \in Range(playerUnits') \cup Range(enemyUnits') :
             /\ u.uniqueId = state.units[k].unitId
             /\ u.currentHp = state.units[k].currentHP
             /\ u.position = <<state.units[k].q, state.units[k].r>>

\* C27: every step that syncs a snapshot, the one load() fetched or the one a request
\* was answered with, leaves the local tiles equal to the snapshot's tiles and the local
\* units equal to the snapshot's units, each with its currentHP and its position (q, r).
C27_SnapshotReplacesLocal ==
    [][/\ \A state \in InitialStates :
             (isLoading /\ ~isLoading' /\ ApplySync(syncFromState(state, LocalId)))
                => SyncedExactly(state)
       /\ \A i \in 1..Len(pending) : \A reply \in Replies(pending[i]) :
             (reply.ok /\ Respond(i, reply)) => SyncedExactly(reply.state)]_vars

\* The phase the claim derives from a status.
PhaseOf(status) ==
    CASE status = "not_started" -> "deployment"
      [] status = "finished" -> "finished"
      [] OTHER -> "battle"

\* C28: after every step that syncs a snapshot, the one load() fetched first or the one a
\* later request was answered with, the phase is the one derived from the snapshot's
\* status: deployment for not_started, finished for finished, battle for in_progress and
\* paused.  The reply that completes mirrorEnemyDeployment is left out: the handler sets
\* the phase itself after that sync.
C28_PhaseFromStatus ==
    [][/\ \A state \in InitialStates :
             (isLoading /\ ~isLoading' /\ ApplySync(syncFromState(state, LocalId)))
                => phase' = PhaseOf(state.status)
       /\ \A i \in 1..Len(pending) : \A reply \in Replies(pending[i]) :
             (reply.ok /\ pending[i].kind # "MIRROR" /\ Respond(i, reply))
                => phase' = PhaseOf(reply.state.status)]_vars

\* C29: in every state with phase = battle, every unit id in the acted or moved set of
\* either side is the id of a living unit of the side whose turn it is.
C29_MarksOfActiveSide ==
    phase = "battle"
       => \A id \in acted.player \cup acted.enemy \cup moved.player \cup moved.enemy :
             \E u \in Range(playerUnits) \cup Range(enemyUnits) :
                u.uniqueId = id /\ u.currentHp > 0 /\ u.owner = activeSide

\* endTurnInternal() returns at its first line.
EndTurnRejected == gameResult.winner # "null" \/ activeSide # "player" \/ isResolvingAi

Sent == pending'[Len(pending')]

\* A step that sends a request.
SendsAny == Len(pending') = Len(pending) + 1

\* C31: a unit with currentHp = 0 is out of play.  No step selects it; no step sends a
\* PLACE, MOVE or ATTACK of it, nor the mirror's MOVE of it, nor an ATTACK on it; and
\* its tile, when no living unit is on it, is no key of occupiedMap, blocks no unit's
\* move and takes a drop when it is passable.
C31_DeadOutOfPlay ==
    [][\A u \in Range(AllUnits) :
          u.currentHp = 0
             => /\ selectedUnitId' = u.uniqueId => selectedUnitId = u.uniqueId
                /\ (SendsAny /\ Sent.kind \in {"PLACE", "MOVE", "ATTACK", "MIRROR"})
                      => Sent.unitId # u.uniqueId
                /\ (SendsAny /\ Sent.kind = "ATTACK") => Sent.targetId # u.uniqueId
                /\ (u.position # NoCoords /\ ~OccupiedByOther(u.position, u.uniqueId))
                      => /\ u.position \notin DOMAIN occupiedMap(AllUnits)
                         /\ \A v \in Range(AllUnits) : u.position \notin blockedFor(v)
                         /\ (\E t \in board.tiles : t.q = u.position[1] /\ t.r = u.position[2] /\ t.passable)
                               => canDropOnTile(u.position)]_vars

\* A step that is the answer to a POST of /stats/record.
StatsReplyStep == stats'.inFlight < stats.inFlight

\* C32: the answer to a POST of /stats/record, failed or not, leaves phase, winner, units
\* and turn state as they were, and the backend never records more than one result for
\* the game.
C32_ReportedOnce ==
    [][/\ StatsReplyStep
          => UNCHANGED <<phase, gameResult, playerUnits, enemyUnits, activeSide, roundNumber,
                         acted, moved, isResolvingAi>>
       /\ stats'.reports <= 1]_vars

\* The ids of the enemy MOVEs a request of mirrorEnemyDeployment stands for: its own and
\* those still to send.
MirrorIds(req) == {req.unitId} \cup {req.rest[k][1] : k \in 1..Len(req.rest)}

\* C33: with more enemy units than player units, the step of mirrorEnemyDeployment that
\* sends its first MOVE leaves every enemy unit without a player unit at its index as it
\* was and plans no MOVE of such a unit that is unplaced, and the step that answers its
\* last MOVE starts the battle.
C33_UnmatchedSkipped ==
    [][Len(enemyUnits) > Len(playerUnits)
          => /\ Sends("MIRROR")
                => \A i \in (Len(playerUnits) + 1)..Len(enemyUnits) :
                      /\ enemyUnits'[i] = enemyUnits[i]
                      /\ enemyUnits[i].position = NoCoords
                            => enemyUnits[i].uniqueId \notin MirrorIds(Sent)
             /\ \A i \in 1..Len(pending) :
                   (pending[i].kind = "MIRROR" /\ pending[i].rest = <<>>
                       /\ \E reply \in Replies(pending[i]) : Respond(i, reply))
                      => phase' = "battle"]_vars

\* C33, its case: the battle has started with the enemy's second unit, which has no
\* player unit at its index, still unplaced.
C33_BattleWithUnplacedEnemy ==
    /\ phase = "battle"
    /\ Len(enemyUnits) = 2 /\ Len(playerUnits) = 1
    /\ enemyUnits[1].position # NoCoords
    /\ enemyUnits[2].position = NoCoords

\* C34: in the legacy page no step moves a unit that is in the moved set of its side:
\* a unit that has moved does not move again in that turn.
C34_OneMovePerTurn ==
    [][(SendsAny /\ Sent.kind = "MOVE" /\ phase = "battle")
          => Sent.unitId \notin SetOf(moved, Sent.owner)]_vars

\* The ids of the units of a side.
SideIds(side) == {u.uniqueId : u \in Range(IF side = "player" THEN playerUnits ELSE enemyUnits)}

\* handleMoveTo of the legacy page would move unit u when the user clicks the free cell c.
CanMoveTo(u, c) ==
    LET blocked == {k \in DOMAIN legacyOccupiedMap : legacyOccupiedMap[k].uniqueId # u.uniqueId}
        pathResult == findPath(board.tiles, u.position, c, blocked, Stats(u).speed)
        destination == pathResult.path[Len(pathResult.path)]
    IN  /\ pathResult # NoPath /\ pathResult.path # <<>>
        /\ ~(destination = u.position /\ c # u.position)
        /\ ~(destination \in DOMAIN legacyOccupiedMap
                /\ legacyOccupiedMap[destination].uniqueId # u.uniqueId)

\* C35: in the legacy page, when a move has been completed the turn passes to the other
\* side exactly when every unit of the active side has then moved; the moved sets are
\* empty after the step that ends the enemy's turn and hold the player's moves after
\* the step that ends the player's turn; and the turn can pass from every battle state:
\* with nothing in flight, some unit of the active side can be moved (no other step of
\* the page passes the turn, so that without such a unit it never passes).
C35_TurnPassing ==
    /\ [][\A i \in 1..Len(pending) :
             (pending[i].kind = "MOVE" /\ LegacyMoveDone(i))
                => LET after == Mark(moved, pending[i].owner, pending[i].unitId)
                   IN  /\ (activeSide' # activeSide)
                             <=> SideIds(activeSide) \subseteq SetOf(after, activeSide)
                       /\ (activeSide = "enemy" /\ activeSide' = "player")
                             => moved' = [player |-> {}, enemy |-> {}]
                       /\ (activeSide = "player" /\ activeSide' = "enemy")
                             => moved' = after /\ moved'.player # {}]_vars
    /\ []((phase = "battle" /\ pending = <<>>)
             => \E u \in Range(AllUnits) :
                   /\ u.owner = activeSide
                   /\ \E c \in Grid \ DOMAIN legacyOccupiedMap : CanMoveTo(u, c))

\* C36: the step that answers the request of an AI-turn delegation, failed or not, ends
\* with isResolvingAi false, and with roundNumber the turnNumber of the snapshot when it
\* succeeded.
C36_AiTurnCompletes ==
    [][\A i \in 1..Len(pending) : \A reply \in Replies(pending[i]) :
          (pending[i].kind = "AI" /\ Respond(i, reply))
             => /\ ~isResolvingAi'
                /\ reply.ok => roundNumber' = reply.state.turnNumber]_vars

\* The living units that have a position.
LivingPlaced == {u \in Range(AllUnits) : u.currentHp > 0 /\ u.position # NoCoords}

\* C37: no two living units have the same position, and every living unit that is placed
\* stands on a tile of the board that is passable.
C37_BoardConsistent ==
    /\ \A u, v \in LivingPlaced : u.position = v.position => u.uniqueId = v.uniqueId
    /\ \A u \in LivingPlaced :
          \E t \in board.tiles : <<t.q, t.r>> = u.position /\ t.passable

\* C38: the step that answers a MOVE adds its unit to the moved set of the page as it is
\* then, and the step that answers a successful ATTACK adds its unit to the acted set as
\* it is then: no mark made meanwhile is dropped.  When an END_TURN has been answered
\* since the action was issued, the step adds no mark at all.
C38_MarksSurviveOverlap ==
    [][\A i \in 1..Len(pending) : \A reply \in Replies(pending[i]) :
          LET req == pending[i]
          IN  /\ (req.kind = "MOVE" /\ Respond(i, reply))
                    => /\ acted' = acted
                       /\ moved' = IF IssuedOf(req.unitId).moves > 0
                                   THEN Mark(moved, req.owner, req.unitId) ELSE moved
              /\ (req.kind = "ATTACK" /\ reply.ok /\ Respond(i, reply))
                    => /\ moved' = moved
                       /\ acted' = IF IssuedOf(req.unitId).attacks > 0
                                   THEN Mark(acted, req.owner, req.unitId) ELSE acted]_vars

\* The movementCost of the tile at c, a coordinate of the call's board.
CostOfTile(c) == (CHOOSE t \in call.tiles : <<t.q, t.r>> = c).movementCost

\* C39: the cost findPath returns is the least sum of the movementCost of the tiles
\* entered over the walks from the start to the destination of the returned path that
\* go by the four steps over passable tiles that are not blocked.
C39_CostIsMinimal ==
    Returned
        => /\ Destination \in ReachWithin(call.maxCost)
           /\ call.result.cost = LeastCost(Destination)

\* C39, its case: the returned path has three coordinates, and the destination can also
\* be entered from another reachable tile, at a higher cost.
C39_DearerRouteExists ==
    /\ Returned
    /\ Len(call.result.path) = 3
    /\ \E c \in ReachWithin(call.maxCost) \ {call.result.path[2], Destination} :
          /\ Manhattan(c, Destination) = 1
          /\ LeastCost(c) + CostOfTile(Destination) > call.result.cost
          /\ LeastCost(c) + CostOfTile(Destination) <= call.maxCost

\* C40: the step that answers a PLACE at a coordinate with a not_started snapshot leaves
\* the placed unit at that coordinate in playerUnits, whatever the coordinate.
C40_PlacementRoundTrip ==
    [][\A i \in 1..Len(pending) : \A reply \in Replies(pending[i]) :
          (/\ pending[i].kind = "PLACE"
           /\ reply.ok
           /\ reply.state.status = "not_started"
           /\ Respond(i, reply))
             => FindUnit(playerUnits', pending[i].unitId).position
                   = <<pending[i].q, pending[i].r>>]_vars

\* ------------------------------------------------------------------ specification

VictoryModes == {"points", "elimination", "turns"}

Next ==
    \/ Load /\ UNCHANGED aside
    \/ RunEffects /\ UNCHANGED aside
    \/ \E c \in Grid : TileClick(c) /\ UNCHANGED aside
    \/ \E i \in 1..Len(AllUnits) : UnitListClick(i) /\ UNCHANGED aside
    \/ \E id \in UnitIds, c \in Grid : onTileDrop(id, c) /\ UNCHANGED aside
    \/ \E mode \in VictoryModes : SetVictoryMode(mode) /\ UNCHANGED aside
    \/ \E value \in 0..MaxTurnInput : SetTurnLimit(value) /\ UNCHANGED aside
    \/ ManualFinish /\ UNCHANGED aside
    \/ EndTurnClick /\ UNCHANGED aside
    \/ ContinueClick /\ UNCHANGED aside
    \/ \E i \in 1..Len(pending) : \E reply \in Replies(pending[i]) :
          Respond(i, reply) /\ UNCHANGED aside

Spec == Init /\ [][Next]_vars

\* ------------------------------------------------------------------ the deployment handlers called directly

\* No effect of the page is ever due in these runs: nothing is selected, no unit is hit
\* and the turn never passes.
DeployNext ==
    \/ Load /\ UNCHANGED aside
    \/ \E id \in UnitIds, c \in Grid : PlaceCall(id, c)
    \/ MirrorCall
    \/ \E i \in 1..Len(pending) : \E reply \in Replies(pending[i]) :
          Respond(i, reply) /\ UNCHANGED aside

DeploySpec == Init /\ [][DeployNext]_vars

\* ------------------------------------------------------------------ endTurnInternal called directly

\* A battle in which the End turn button answers every click: the user deploys by
\* Continue, selects, moves and attacks by clicks on the board, and ends turns.
TurnNext ==
    \/ Load /\ UNCHANGED aside
    \/ RunEffects /\ UNCHANGED aside
    \/ \E c \in Grid : TileClick(c) /\ UNCHANGED aside
    \/ ContinueClick /\ UNCHANGED aside
    \/ EndTurnCall
    \/ \E i \in 1..Len(pending) : \E reply \in Replies(pending[i]) :
          Respond(i, reply) /\ UNCHANGED aside

TurnSpec == Init /\ [][TurnNext]_vars

\* ------------------------------------------------------------------ deployment of uneven armies

\* The deployment of a game in which the enemy has more units than the player.
UnevenNext ==
    \/ LoadFrom(UnevenStates) /\ UNCHANGED aside
    \/ \E id \in UnitIds, c \in Grid : onTileDrop(id, c) /\ UNCHANGED aside
    \/ ContinueClick /\ UNCHANGED aside
    \/ \E i \in 1..Len(pending) : \E reply \in Replies(pending[i]) :
          Respond(i, reply) /\ UNCHANGED aside

UnevenSpec == Init /\ [][UnevenNext]_vars

\* ------------------------------------------------------------------ the legacy board page

LegacyNext ==
    \/ LegacyLoad
    \/ \E id \in UnitIds, c \in Grid : LegacyDrop(id, c)
    \/ LegacyContinue
    \/ \E c \in Grid : LegacyTileClick(c)
    \/ \E i \in 1..Len(AllUnits) : LegacyUnitListClick(i)
    \/ \E i \in 1..Len(pending) : LegacyMirrorDone(i)
    \/ \E i \in 1..Len(pending) : LegacyMoveDone(i)

LegacySpec == Init /\ [][LegacyNext]_vars

\* ------------------------------------------------------------------ the page with its stats effect

\* A game played to its end by clicks on the board, End turn and "End game now", each
\* commit followed by the stats effect.
StatsNext ==
    \/ Load /\ StatsEffect(TRUE) /\ UNCHANGED call
    \/ RunEffects /\ StatsEffect(FALSE) /\ UNCHANGED call
    \/ \E c \in Grid : TileClick(c) /\ StatsEffect(FALSE) /\ UNCHANGED call
    \/ ManualFinish /\ StatsEffect(FALSE) /\ UNCHANGED call
    \/ EndTurnClick /\ StatsEffect(FALSE) /\ UNCHANGED call
    \/ ContinueClick /\ StatsEffect(FALSE) /\ UNCHANGED call
    \/ \E i \in 1..Len(pending) : \E reply \in Replies(pending[i]) :
          Respond(i, reply) /\ StatsEffect(reply.ok) /\ UNCHANGED call
    \/ \E ok \in BOOLEAN : StatsReply(ok)

StatsSpec == Init /\ [][StatsNext]_vars

\* ------------------------------------------------------------------ findPath on its own

PathGrid == {<<q, r>> : q \in 0..MaxPathQ, r \in 0..MaxPathR}

\* What a coordinate of the board holds: no tile, an impassable tile, or a passable
\* tile with its movementCost.
TileOptions == {<<"none", 0>>, <<"wall", 1>>} \cup {<<"open", cost>> : cost \in 1..MaxTileCost}

\* The tiles of the board that holds layout[c] at c.
TilesOf(layout) ==
    { [q |-> c[1], r |-> c[2], passable |-> layout[c][1] = "open", movementCost |-> layout[c][2]] :
        c \in {x \in PathGrid : layout[x][1] # "none"} }

\* The calls: every board, start, target, budget, and up to MaxBlocked blocked coordinates.
PathCalls ==
    { [NoCall EXCEPT !.tiles = TilesOf(layout), !.start = start, !.target = target,
                     !.blocked = blocked, !.maxCost = maxCost] :
        layout \in [PathGrid -> TileOptions], start \in PathGrid, target \in PathGrid,
        blocked \in {b \in SUBSET PathGrid : Cardinality(b) <= MaxBlocked},
        maxCost \in 0..MaxBudget }

PathInit == PageInit /\ call \in PathCalls /\ stats = NoStats

\* findPath(start, target, blocked, maxCost) on the board of the call.
CallFindPath ==
    /\ ~call.returned
    /\ call' = [call EXCEPT !.returned = TRUE,
                            !.result = findPath(call.tiles, call.start, call.target,
                                                call.blocked, call.maxCost)]
    /\ UNCHANGED <<board, localPlayerId, enemyPlayerId, playerUnits, enemyUnits, phase,
                   activeSide, selectedUnitId, pathCoords, error, victoryMode, turnLimit,
                   roundNumber, gameResult, isResolvingAi, acted, moved, isLoading, pending,
                   sent, issued, stats>>

PathNext == CallFindPath

PathSpec == PathInit /\ [][PathNext]_vars

====
